---- MODULE Spec2Model ----
(***************************************************************************)
(* Research-paper-explorer: the in-memory indexes of src/main.py (AVLTree, *)
(* RBTree) and the search engine of src/advanced_search.py                 *)
(* (AdvancedSearchEngine).                                                 *)
(*                                                                         *)
(* A Python str is modelled as the tuple of its code points, so that       *)
(* comparison, startswith, lower and substring search are computed the way *)
(* Python computes them.  Python's None is the empty tuple.                *)
(***************************************************************************)
EXTENDS Integers, Sequences, FiniteSets, TLC

VARIABLES avl_root, avl_titles, avl_call, rb, rb_call,
          flt_papers, flt_filters, flt_now, flt_ret,
          ac_prefix, ac_titles, ac_history, ac_ret,
          aq_query, aq_ret, aq_returned,
          self_search_history, self_popular_queries, self_trending_topics,
          gi_papers, gi_ret,
          sq_query, sq_papers, sq_ret

avlVars == <<avl_root, avl_titles, avl_call>>
rbVars == <<rb, rb_call>>
fltVars == <<flt_papers, flt_filters, flt_now, flt_ret>>
acVars == <<ac_prefix, ac_titles, ac_history, ac_ret>>
qryVars == <<aq_query, aq_ret, aq_returned>>
engVars == <<self_search_history, self_popular_queries, self_trending_topics>>
insVars == <<gi_papers, gi_ret>>
sugVars == <<sq_query, sq_papers, sq_ret>>
vars == <<avl_root, avl_titles, avl_call, rb, rb_call,
          flt_papers, flt_filters, flt_now, flt_ret,
          ac_prefix, ac_titles, ac_history, ac_ret,
          aq_query, aq_ret, aq_returned,
          self_search_history, self_popular_queries, self_trending_topics,
          gi_papers, gi_ret,
          sq_query, sq_papers, sq_ret>>

(***************************************************************************)
(* Bounds of the model.                                                    *)
(***************************************************************************)
\* number of pieces a query is put together from
MaxPieces == 3
\* number of analyze_query calls a behaviour makes
MaxAnalyses == 2
\* number of record_search calls a behaviour makes
MaxSearches == 2
\* number of AVLTree.insert calls a behaviour makes
MaxAVLInserts == 6
\* number of RBTree.insert calls a behaviour makes
MaxRBInserts == 8
\* length of the record list handed to filter_papers_advanced
MaxPapers == 2
\* length of the title list handed to smart_autocomplete
MaxAcTitles == 3
\* length of the history handed to smart_autocomplete
MaxAcHistory == 2

(***************************************************************************)
(* Python strings.                                                         *)
(***************************************************************************)
None == <<>>

Max(a, b) == IF a >= b THEN a ELSE b

Min(a, b) == IF a <= b THEN a ELSE b

Abs(a) == IF a >= 0 THEN a ELSE 0 - a

\* str.__lt__: lexicographic by code point, a proper prefix is smaller
StrLt(a, b) ==
    \E i \in 1..(Len(b)) :
        /\ i <= Len(a) + 1
        /\ \A j \in 1..(i - 1) : a[j] = b[j]
        /\ (i = Len(a) + 1 \/ a[i] < b[i])

\* str.__gt__
StrGt(a, b) == StrLt(b, a)

\* str.startswith
startswith(s, prefix) ==
    /\ Len(prefix) <= Len(s)
    /\ \A i \in 1..Len(prefix) : s[i] = prefix[i]

\* the titles the caller indexes: a ab abc b ba c
TitlePool == { <<97>>, <<97, 98>>, <<97, 98, 99>>, <<98>>, <<98, 97>>, <<99>> }

\* the prefixes the caller completes: "" a ab b c d
PrefixPool == { <<>>, <<97>>, <<97, 98>>, <<98>>, <<99>>, <<100>> }

\* the author keys: Ann Bob ann
AuthorPool == { <<65, 110, 110>>, <<66, 111, 98>>, <<97, 110, 110>> }

(***************************************************************************)
(* AVLTree (src/main.py).  A node is <<title, height, left, right>>.       *)
(***************************************************************************)
AVLNode(title) == <<title, 1, None, None>>

get_height(node) == IF node = None THEN 0 ELSE node[2]

get_balance(node) ==
    IF node = None THEN 0 ELSE get_height(node[3]) - get_height(node[4])

\* rotate_left that does not hang T2 under z
rotate_left_drops_T2(z) ==
    LET y == z[4] IN
    IF y = None THEN z
    ELSE LET z1 == <<z[1], 1 + Max(get_height(z[3]), 0), z[3], None>>
         IN <<y[1], 1 + Max(get_height(z1), get_height(y[4])), z1, y[4]>>

\* rotate_left that leaves z.height as it was
rotate_left_stale_height(z) ==
    LET y == z[4] IN
    IF y = None THEN z
    ELSE LET T2 == y[3]
             z1 == <<z[1], z[2], z[3], T2>>
         IN <<y[1], 1 + Max(get_height(z1), get_height(y[4])), z1, y[4]>>

rotate_left(z) ==
    LET y == z[4] IN
    IF y = None THEN z
    ELSE LET T2 == y[3]
             z1 == <<z[1], 1 + Max(get_height(z[3]), get_height(T2)), z[3], T2>>
         IN <<y[1], 1 + Max(get_height(z1), get_height(y[4])), z1, y[4]>>

\* rotate_right that hangs T3 on the right of z and z.right on its left
rotate_right_swaps_subtrees(z) ==
    LET y == z[3] IN
    IF y = None THEN z
    ELSE LET T3 == y[4]
             z1 == <<z[1], 1 + Max(get_height(T3), get_height(z[4])), z[4], T3>>
         IN <<y[1], 1 + Max(get_height(y[3]), get_height(z1)), y[3], z1>>

rotate_right(z) ==
    LET y == z[3] IN
    IF y = None THEN z
    ELSE LET T3 == y[4]
             z1 == <<z[1], 1 + Max(get_height(T3), get_height(z[4])), T3, z[4]>>
         IN <<y[1], 1 + Max(get_height(y[3]), get_height(z1)), y[3], z1>>

balance_tree(node) ==
    LET balance == get_balance(node) IN
    IF balance > 1 /\ node[3] # None /\ StrGt(node[3][1], node[1])
    THEN rotate_right(node)
    ELSE IF balance < -1 /\ node[4] # None /\ StrLt(node[4][1], node[1])
    THEN rotate_left(node)
    ELSE IF balance > 1 /\ node[3] # None /\ StrLt(node[3][1], node[1])
    THEN rotate_right(<<node[1], node[2], rotate_left(node[3]), node[4]>>)
    ELSE IF balance < -1 /\ node[4] # None /\ StrGt(node[4][1], node[1])
    THEN rotate_left(<<node[1], node[2], node[3], rotate_right(node[4])>>)
    ELSE node

RECURSIVE insert(_, _)
insert(root, title) ==
    IF root = None THEN AVLNode(title)
    ELSE LET l == IF StrLt(title, root[1]) THEN insert(root[3], title) ELSE root[3]
             r == IF StrLt(title, root[1]) THEN root[4] ELSE insert(root[4], title)
         IN balance_tree(<<root[1], 1 + Max(get_height(l), get_height(r)), l, r>>)

RECURSIVE autocomplete(_, _)
autocomplete(node, prefix) ==
    IF node = None THEN <<>>
    ELSE (IF startswith(node[1], prefix) THEN <<node[1]>> ELSE <<>>)
         \o autocomplete(node[3], prefix)
         \o autocomplete(node[4], prefix)

\* number of titles the caller has inserted so far
RECURSIVE BagTotal(_, _)
BagTotal(bag, S) ==
    IF S = {} THEN 0
    ELSE LET t == CHOOSE x \in S : TRUE IN bag[t] + BagTotal(bag, S \ {t})

\* avl_root = avl_tree.insert(avl_root, title), for the next title of the caller
AVLInsert ==
    \E title \in TitlePool :
        /\ BagTotal(avl_titles, TitlePool) < MaxAVLInserts
        /\ avl_root' = insert(avl_root, title)
        /\ avl_titles' = [avl_titles EXCEPT ![title] = @ + 1]
        /\ avl_call' = [op |-> "insert", prefix |-> <<>>, results |-> <<>>]
        /\ UNCHANGED <<rbVars, fltVars, acVars, qryVars, engVars, insVars, sugVars>>

\* results = AVLTree().autocomplete(avl_root, prefix)
AVLAutocomplete ==
    \E prefix \in PrefixPool :
        /\ avl_call' = [op |-> "autocomplete", prefix |-> prefix,
                        results |-> autocomplete(avl_root, prefix)]
        /\ UNCHANGED <<avl_root, avl_titles>>
        /\ UNCHANGED <<rbVars, fltVars, acVars, qryVars, engVars, insVars, sugVars>>

(***************************************************************************)
(* RBTree (src/main.py).  Nodes live in an arena: node 0 is the sentinel   *)
(* self.NIL, node i is the RBNode made by the i-th insert call.  The tree  *)
(* is the record of its root and, per node, the fields of RBNode.  The     *)
(* title field is a payload no method of RBTree reads; it is left out.     *)
(***************************************************************************)
NIL == 0

\* the None held by a parent, left or right field
NoneRef == 0 - 1

RBNodes(t) == (DOMAIN t.color) \ {NIL}

\* RBTree.__init__
RBTree ==
    [ root   |-> NIL,
      author |-> [i \in {NIL} |-> <<>>],
      color  |-> [i \in {NIL} |-> "black"],
      left   |-> [i \in {NIL} |-> NoneRef],
      right  |-> [i \in {NIL} |-> NoneRef],
      parent |-> [i \in {NIL} |-> NoneRef] ]

\* rotate_left that assigns y.left.parent without asking whether y.left is NIL
rb_rotate_left_unguarded(t, x) ==
    LET y == t.right[x] IN
    IF y = NIL THEN t
    ELSE LET t1 == [t EXCEPT !.right[x] = t.left[y]]
             t2 == [t1 EXCEPT !.parent[t1.left[y]] = x]
             t3 == [t2 EXCEPT !.parent[y] = t2.parent[x]]
             t4 == IF t3.parent[x] = NoneRef THEN [t3 EXCEPT !.root = y]
                   ELSE IF x = t3.left[t3.parent[x]]
                   THEN [t3 EXCEPT !.left[t3.parent[x]] = y]
                   ELSE [t3 EXCEPT !.right[t3.parent[x]] = y]
             t5 == [t4 EXCEPT !.left[y] = x]
         IN [t5 EXCEPT !.parent[x] = y]

rb_rotate_left(t, x) ==
    LET y == t.right[x] IN
    IF y = NIL THEN t
    ELSE LET t1 == [t EXCEPT !.right[x] = t.left[y]]
             t2 == IF t1.left[y] # NIL
                   THEN [t1 EXCEPT !.parent[t1.left[y]] = x] ELSE t1
             t3 == [t2 EXCEPT !.parent[y] = t2.parent[x]]
             t4 == IF t3.parent[x] = NoneRef THEN [t3 EXCEPT !.root = y]
                   ELSE IF x = t3.left[t3.parent[x]]
                   THEN [t3 EXCEPT !.left[t3.parent[x]] = y]
                   ELSE [t3 EXCEPT !.right[t3.parent[x]] = y]
             t5 == [t4 EXCEPT !.left[y] = x]
         IN [t5 EXCEPT !.parent[x] = y]

\* rotate_right that leaves the parent of the subtree it moves (y.right) as
\* it was
rb_rotate_right_subtree_parent_stale(t, x) ==
    LET y == t.left[x] IN
    IF y = NIL THEN t
    ELSE LET t1 == [t EXCEPT !.left[x] = t.right[y]]
             t3 == [t1 EXCEPT !.parent[y] = t1.parent[x]]
             t4 == IF t3.parent[x] = NoneRef THEN [t3 EXCEPT !.root = y]
                   ELSE IF x = t3.right[t3.parent[x]]
                   THEN [t3 EXCEPT !.right[t3.parent[x]] = y]
                   ELSE [t3 EXCEPT !.left[t3.parent[x]] = y]
             t5 == [t4 EXCEPT !.right[y] = x]
         IN [t5 EXCEPT !.parent[x] = y]

rb_rotate_right(t, x) ==
    LET y == t.left[x] IN
    IF y = NIL THEN t
    ELSE LET t1 == [t EXCEPT !.left[x] = t.right[y]]
             t2 == IF t1.right[y] # NIL
                   THEN [t1 EXCEPT !.parent[t1.right[y]] = x] ELSE t1
             t3 == [t2 EXCEPT !.parent[y] = t2.parent[x]]
             t4 == IF t3.parent[x] = NoneRef THEN [t3 EXCEPT !.root = y]
                   ELSE IF x = t3.right[t3.parent[x]]
                   THEN [t3 EXCEPT !.right[t3.parent[x]] = y]
                   ELSE [t3 EXCEPT !.left[t3.parent[x]] = y]
             t5 == [t4 EXCEPT !.right[y] = x]
         IN [t5 EXCEPT !.parent[x] = y]

\* the red-uncle case with the parent left red
recolor_parent_left_red(t, p, uncle, g) ==
    LET t2 == [t EXCEPT !.color[uncle] = "black"]
    IN [t2 EXCEPT !.color[g] = "red"]

\* the red-uncle case with the grandparent left black
recolor_grandparent_left_black(t, p, uncle, g) ==
    LET t1 == [t EXCEPT !.color[p] = "black"]
    IN [t1 EXCEPT !.color[uncle] = "black"]

\* the red-uncle case: parent and uncle black, grandparent red
recolor(t, p, uncle, g) ==
    LET t1 == [t EXCEPT !.color[p] = "black"]
        t2 == [t1 EXCEPT !.color[uncle] = "black"]
    IN [t2 EXCEPT !.color[g] = "red"]

\* one pass of the while loop of fix_insertion: the tree and new_node after
\* the body
fix_pass(t, new_node) ==
    LET p == t.parent[new_node]
        g == t.parent[p]
    IN IF p = t.left[g]
       THEN LET uncle == t.right[g] IN
            IF t.color[uncle] = "red"
            THEN [t |-> recolor(t, p, uncle, g), new_node |-> g]
            ELSE LET inner == (new_node = t.right[p])
                     n1 == IF inner THEN p ELSE new_node
                     t1 == IF inner THEN rb_rotate_left(t, p) ELSE t
                     t2 == [t1 EXCEPT !.color[t1.parent[n1]] = "black"]
                     t3 == [t2 EXCEPT !.color[t2.parent[t2.parent[n1]]] = "red"]
                     t4 == rb_rotate_right(t3, t3.parent[t3.parent[n1]])
                 IN [t |-> t4, new_node |-> n1]
       ELSE LET uncle == t.left[g] IN
            IF t.color[uncle] = "red"
            THEN [t |-> recolor(t, p, uncle, g), new_node |-> g]
            ELSE LET inner == (new_node = t.left[p])
                     n1 == IF inner THEN p ELSE new_node
                     t1 == IF inner THEN rb_rotate_right(t, p) ELSE t
                     t2 == [t1 EXCEPT !.color[t1.parent[n1]] = "black"]
                     t3 == [t2 EXCEPT !.color[t2.parent[t2.parent[n1]]] = "red"]
                     t4 == rb_rotate_left(t3, t3.parent[t3.parent[n1]])
                 IN [t |-> t4, new_node |-> n1]

\* while new_node != self.root and new_node.parent.color == 'red'
loop_condition(t, new_node) ==
    new_node # t.root /\ t.color[t.parent[new_node]] = "red"

\* the while loop of fix_insertion: one pass, then the rest of the loop
RECURSIVE fix_loop(_, _)
fix_loop(t, new_node) ==
    IF loop_condition(t, new_node)
    THEN LET pass == fix_pass(t, new_node)
         IN fix_loop(pass.t, pass.new_node)
    ELSE t

\* fix_insertion without its last statement
fix_insertion_root_left_red(t, new_node) == fix_loop(t, new_node)

\* the loop, then self.root.color = 'black'
fix_insertion(t, new_node) ==
    LET t1 == fix_loop(t, new_node) IN [t1 EXCEPT !.color[t1.root] = "black"]

\* the while loop of _insert_node: the node under which the key is hung
RECURSIVE descend(_, _, _, _)
descend(t, current, parent, key) ==
    IF current # NIL
    THEN descend(t, IF StrLt(key, t.author[current]) THEN t.left[current]
                    ELSE t.right[current], current, key)
    ELSE parent

\* _insert_node up to the call of fix_insertion: the node hung under its
\* parent and coloured red
attach(t, new_node) ==
    LET parent == descend(t, t.root, NoneRef, t.author[new_node])
        t1 == [t EXCEPT !.parent[new_node] = parent]
        t2 == IF parent = NoneRef THEN [t1 EXCEPT !.root = new_node]
              ELSE IF StrLt(t1.author[new_node], t1.author[parent])
              THEN [t1 EXCEPT !.left[parent] = new_node]
              ELSE [t1 EXCEPT !.right[parent] = new_node]
    IN [t2 EXCEPT !.color[new_node] = "red"]

\* _insert_node that leaves out a node whose author the tree already holds
insert_node_deduplicates(t, new_node) ==
    IF \E n \in RBNodes(t) \ {new_node} : t.author[n] = t.author[new_node]
    THEN t
    ELSE fix_insertion(attach(t, new_node), new_node)

insert_node(t, new_node) == fix_insertion(attach(t, new_node), new_node)

\* new_node = RBNode(title, author); new_node.left = new_node.right = self.NIL
with_new_node(t, author) ==
    LET new_node == Cardinality(DOMAIN t.color)
        ext(f, v) == [i \in (DOMAIN f) \cup {new_node} |->
                          IF i = new_node THEN v ELSE f[i]]
    IN [ root   |-> t.root,
         author |-> ext(t.author, author),
         color  |-> ext(t.color, "red"),
         left   |-> ext(t.left, NIL),
         right  |-> ext(t.right, NIL),
         parent |-> ext(t.parent, NoneRef) ]

\* RBTree.insert
rb_insert(t, author) ==
    insert_node(with_new_node(t, author), Cardinality(DOMAIN t.color))

RECURSIVE inorder_authors(_, _)
inorder_authors(t, node) ==
    IF node # NIL
    THEN inorder_authors(t, t.left[node]) \o <<t.author[node]>>
         \o inorder_authors(t, t.right[node])
    ELSE <<>>

\* set(authors)
SetOf(seq) == { seq[i] : i \in 1..Len(seq) }

\* sorted(S) for a set of strings
RECURSIVE sorted(_)
sorted(S) ==
    IF S = {} THEN <<>>
    ELSE LET m == CHOOSE x \in S : \A y \in S : ~StrLt(y, x)
         IN <<m>> \o sorted(S \ {m})

\* list_unique_authors returning the traversal as it is
list_unique_authors_no_set(t) == inorder_authors(t, t.root)

list_unique_authors(t) == sorted(SetOf(inorder_authors(t, t.root)))

\* rb_tree.insert(title, author)
RBInsert ==
    \E author \in AuthorPool :
        /\ Cardinality(RBNodes(rb)) < MaxRBInserts
        /\ rb' = rb_insert(rb, author)
        /\ rb_call' = [op |-> "insert", ret |-> <<>>]
        /\ UNCHANGED <<avlVars, fltVars, acVars, qryVars, engVars, insVars, sugVars>>

\* unique_authors = rb_tree.list_unique_authors()
RBListUniqueAuthors ==
    /\ rb_call' = [op |-> "list_unique_authors", ret |-> list_unique_authors(rb)]
    /\ UNCHANGED rb
    /\ UNCHANGED <<avlVars, fltVars, acVars, qryVars, engVars, insVars, sugVars>>


(***************************************************************************)
(* Python string and number operations used by AdvancedSearchEngine.       *)
(***************************************************************************)
\* str.lower, on ASCII
lower(s) == [i \in 1..Len(s) |-> IF s[i] >= 65 /\ s[i] <= 90 THEN s[i] + 32 ELSE s[i]]

\* sub is found in s at offset i (0-based)
FoundAt(s, sub, i) ==
    /\ i + Len(sub) <= Len(s)
    /\ \A j \in 1..Len(sub) : s[i + j] = sub[j]

\* the operator in, on strings
StrIn(sub, s) == \E i \in 0..Len(s) : FoundAt(s, sub, i)

\* str.split(sep), sep not empty
RECURSIVE split(_, _)
split(s, sep) ==
    IF ~StrIn(sep, s) THEN <<s>>
    ELSE LET i == CHOOSE k \in 0..Len(s) :
                      FoundAt(s, sep, k) /\ \A m \in 0..(k - 1) : ~FoundAt(s, sep, m)
         IN <<SubSeq(s, 1, i)>> \o split(SubSeq(s, i + Len(sep) + 1, Len(s)), sep)

IsSpace(c) == c \in {9, 10, 11, 12, 13, 32}

\* str.strip
RECURSIVE strip(_)
strip(s) ==
    IF s = <<>> THEN s
    ELSE IF IsSpace(s[1]) THEN strip(Tail(s))
    ELSE IF IsSpace(s[Len(s)]) THEN strip(SubSeq(s, 1, Len(s) - 1))
    ELSE s

\* no value returned yet by the engine
NotCalled == [called |-> FALSE, value |-> <<>>]

\* a Python value: an int, a str or None
PyNum(n) == [t |-> "int", n |-> n, s |-> <<>>]

PyStr(s) == [t |-> "str", n |-> 0, s |-> s]

PyNone == [t |-> "none", n |-> 0, s |-> <<>>]

IsDigits(s) == s # <<>> /\ \A i \in 1..Len(s) : s[i] >= 48 /\ s[i] <= 57

RECURSIVE DigitsValue(_)
DigitsValue(s) ==
    IF s = <<>> THEN 0 ELSE 10 * DigitsValue(SubSeq(s, 1, Len(s) - 1)) + (s[Len(s)] - 48)

\* int(x): ok is FALSE where Python raises ValueError or TypeError
int(x) ==
    IF x.t = "int" THEN [ok |-> TRUE, n |-> x.n]
    ELSE IF x.t = "none" THEN [ok |-> FALSE, n |-> 0]
    ELSE LET body == strip(x.s)
             neg == body # <<>> /\ body[1] = 45
             digits == IF body # <<>> /\ body[1] \in {43, 45} THEN Tail(body) ELSE body
         IN IF IsDigits(digits)
            THEN [ok |-> TRUE, n |-> IF neg THEN 0 - DigitsValue(digits) ELSE DigitsValue(digits)]
            ELSE [ok |-> FALSE, n |-> 0]

\* dict.get(key, default)
get(d, key, default) == IF key \in DOMAIN d THEN d[key] ELSE default

\* the blocks find_longest_match can choose among in a[alo..ahi-1], b[blo..bhi-1]
Blocks(a, b, alo, ahi, blo, bhi) ==
    { c \in (alo..(ahi - 1)) \X (blo..(bhi - 1)) \X (1..Len(a)) :
        /\ c[1] + c[3] <= ahi
        /\ c[2] + c[3] <= bhi
        /\ \A d \in 0..(c[3] - 1) : a[c[1] + d] = b[c[2] + d] }

\* difflib.SequenceMatcher.get_matching_blocks: the total size of the blocks,
\* the longest block first (leftmost in a, then leftmost in b), then the
\* pieces to its left and to its right
RECURSIVE MatchSize(_, _, _, _, _, _)
MatchSize(a, b, alo, ahi, blo, bhi) ==
    LET cands == Blocks(a, b, alo, ahi, blo, bhi) IN
    IF cands = {} THEN 0
    ELSE LET m == CHOOSE c \in cands : \A c2 \in cands :
                      \/ c[3] > c2[3]
                      \/ c[3] = c2[3] /\ c[1] < c2[1]
                      \/ c[3] = c2[3] /\ c[1] = c2[1] /\ c[2] <= c2[2]
         IN m[3]
            + (IF alo < m[1] /\ blo < m[2]
               THEN MatchSize(a, b, alo, m[1], blo, m[2]) ELSE 0)
            + (IF m[1] + m[3] < ahi /\ m[2] + m[3] < bhi
               THEN MatchSize(a, b, m[1] + m[3], ahi, m[2] + m[3], bhi) ELSE 0)

\* SequenceMatcher(None, a, b).ratio() as the fraction num / den
ratio(a, b) ==
    IF Len(a) + Len(b) = 0 THEN [num |-> 1, den |-> 1]
    ELSE [num |-> 2 * MatchSize(a, b, 1, Len(a) + 1, 1, Len(b) + 1),
          den |-> Len(a) + Len(b)]

\* SequenceMatcher(None, a, b).ratio() > 0.7
RatioAbove07(a, b) == 10 * ratio(a, b).num > 7 * ratio(a, b).den


(***************************************************************************)
(* AdvancedSearchEngine.filter_papers_advanced (src/advanced_search.py).   *)
(* A paper and a filter configuration are Python dicts: records whose      *)
(* DOMAIN is the set of keys present.  A datetime is its day (the          *)
(* proleptic ordinal) and tod, 0 at midnight and 1 later in the day.       *)
(***************************************************************************)
EmptyDict == [k \in {} |-> 0]

\* 'Citation Count Not Available'
CitationSentinel ==
    <<67, 105, 116, 97, 116, 105, 111, 110, 32, 67, 111, 117, 110, 116, 32,
      78, 111, 116, 32, 65, 118, 97, 105, 108, 97, 98, 108, 101>>

\* 'Year Not Available'
YearSentinel ==
    <<89, 101, 97, 114, 32, 78, 111, 116, 32, 65, 118, 97, 105, 108, 97, 98, 108, 101>>

get_citation_count(paper) ==
    LET citations == get(paper, "citation_count", PyNum(0)) IN
    IF citations.t = "str" /\ citations.s = CitationSentinel THEN 0
    ELSE IF int(citations).ok THEN int(citations).n
    ELSE 0

\* datetime(year, 1, 1).toordinal()
Jan1(year) ==
    365 * (year - 1) + ((year - 1) \div 4) - ((year - 1) \div 100)
        + ((year - 1) \div 400) + 1

\* the comparison paper_date > cutoff_date, the cutoff itself excluded
is_recent_paper_after(paper, cutoff_date) ==
    LET year == get(paper, "year", PyNone) IN
    IF year.t = "str" /\ year.s = YearSentinel THEN FALSE
    ELSE IF ~int(year).ok THEN FALSE
    ELSE IF int(year).n < 1 \/ int(year).n > 9999 THEN FALSE
    ELSE Jan1(int(year).n) > cutoff_date.day

is_recent_paper(paper, cutoff_date) ==
    LET year == get(paper, "year", PyNone) IN
    IF year.t = "str" /\ year.s = YearSentinel THEN FALSE
    ELSE IF ~int(year).ok THEN FALSE
    ELSE IF int(year).n < 1 \/ int(year).n > 9999 THEN FALSE
    ELSE \/ Jan1(int(year).n) > cutoff_date.day
         \/ Jan1(int(year).n) = cutoff_date.day /\ cutoff_date.tod = 0

\* any(ratio(author_query, author.lower()) > 0.7 for author in authors)
author_matches(paper, author_query) ==
    LET authors == split(get(paper, "authors", <<>>), <<44, 32>>) IN
    \E i \in 1..Len(authors) : RatioAbove07(author_query, lower(authors[i]))

\* every keyword required in the title, instead of any
title_matches_all(paper, keywords) ==
    \A i \in 1..Len(keywords) : StrIn(keywords[i], lower(get(paper, "title", <<>>)))

\* any(keyword in title.lower() for keyword in keywords)
title_matches(paper, keywords) ==
    \E i \in 1..Len(keywords) : StrIn(keywords[i], lower(get(paper, "title", <<>>)))

\* the bounds test that lets the lower bound itself fail
citation_in_range_exclusive(paper, range) ==
    /\ get_citation_count(paper) > get(range, "min", 0)
    /\ ("max" \in DOMAIN range => get_citation_count(paper) <= range["max"])

\* count >= min and count <= max, max defaulting to float('inf')
citation_in_range(paper, range) ==
    /\ get_citation_count(paper) >= get(range, "min", 0)
    /\ ("max" \in DOMAIN range => get_citation_count(paper) <= range["max"])

\* venue_query in paper.get('venue', '').lower()
venue_matches(paper, venue_query) ==
    StrIn(venue_query, lower(get(paper, "venue", <<>>)))

author_stage(papers, filters) ==
    IF "author_name" \in DOMAIN filters /\ filters["author_name"] # <<>>
    THEN SelectSeq(papers, LAMBDA paper :
             author_matches(paper, lower(filters["author_name"])))
    ELSE papers

keywords_of(title_keywords) ==
    LET parts == split(title_keywords, <<44>>)
    IN [i \in 1..Len(parts) |-> lower(strip(parts[i]))]

\* the title stage keeping only the first record that matches
title_stage_first_match(papers, filters) ==
    IF "title_keywords" \in DOMAIN filters /\ filters["title_keywords"] # <<>>
    THEN LET kept == SelectSeq(papers, LAMBDA paper :
                         title_matches(paper, keywords_of(filters["title_keywords"])))
         IN IF kept = <<>> THEN kept ELSE <<kept[1]>>
    ELSE papers

title_stage(papers, filters) ==
    IF "title_keywords" \in DOMAIN filters /\ filters["title_keywords"] # <<>>
    THEN SelectSeq(papers, LAMBDA paper :
             title_matches(paper, keywords_of(filters["title_keywords"])))
    ELSE papers

citation_stage(papers, filters) ==
    IF "citation_range" \in DOMAIN filters
    THEN SelectSeq(papers, LAMBDA paper :
             citation_in_range(paper, filters["citation_range"]))
    ELSE papers

venue_stage(papers, filters) ==
    IF "venue" \in DOMAIN filters /\ filters["venue"] # <<>>
    THEN SelectSeq(papers, LAMBDA paper :
             venue_matches(paper, lower(filters["venue"])))
    ELSE papers

recency_stage(papers, filters, now) ==
    IF "recency_days" \in DOMAIN filters /\ filters["recency_days"] # 0
    THEN SelectSeq(papers, LAMBDA paper :
             is_recent_paper(paper, [day |-> now.day - filters["recency_days"],
                                     tod |-> now.tod]))
    ELSE papers

\* the title stage narrowing the caller's list instead of filtered_papers
filter_papers_advanced_title_from_all(papers, filters, now) ==
    LET f1 == author_stage(papers, filters)
        f2 == IF "title_keywords" \in DOMAIN filters /\ filters["title_keywords"] # <<>>
              THEN title_stage(papers, filters) ELSE f1
    IN recency_stage(venue_stage(citation_stage(f2, filters), filters), filters, now)

filter_papers_advanced(papers, filters, now) ==
    recency_stage(
        venue_stage(
            citation_stage(
                title_stage(
                    author_stage(papers, filters), filters), filters), filters),
        filters, now)

\* arXiv   CrossRef (cut to Cross)   ARX
SrcArxiv == <<97, 114, 88, 105, 118>>

SrcCross == <<67, 114, 111, 115, 115>>

\* the records handed to the filter: three of the shapes the fetchers make
\* (no venue key), one that carries a venue, one with a title only, one
\* whose year is None
PaperPool ==
    { [source |-> SrcArxiv, title |-> <<97, 98>>,
       authors |-> <<65, 110, 110, 44, 32, 66, 111, 98>>,
       year |-> PyStr(<<50, 48, 50, 54>>), citation_count |-> PyStr(CitationSentinel)],
      [source |-> SrcCross, title |-> <<66, 99>>, authors |-> <<97, 110, 110>>,
       year |-> PyNum(2025), citation_count |-> PyNum(50)],
      [source |-> SrcCross, title |-> <<99>>, authors |-> <<66, 111, 98>>,
       year |-> PyStr(YearSentinel), citation_count |-> PyNum(150)],
      [venue |-> <<65, 82, 88>>, title |-> <<97, 98, 99>>, authors |-> <<65, 110>>,
       year |-> PyNum(2026), citation_count |-> PyStr(<<49, 48>>)],
      [title |-> <<98>>],
      [source |-> SrcArxiv, title |-> <<97>>, authors |-> <<97, 110, 110>>,
       year |-> PyNone, citation_count |-> PyNum(100)] }

RECURSIVE SeqsUpTo(_, _)
SeqsUpTo(S, n) ==
    IF n = 0 THEN { <<>> }
    ELSE LET shorter == SeqsUpTo(S, n - 1)
         IN shorter \cup { Append(q, x) : q \in shorter, x \in S }

\* one optional key of a dict: absent, or present with one of the values
Optional(key, values) == { EmptyDict } \cup { [k \in {key} |-> v] : v \in values }

\* the configurations: every combination of
\*   author_name     absent, '', 'ann'
\*   title_keywords  absent, 'A, c', ' Bc,x'
\*   citation_range  absent, {}, {min: 10}, {min: 10, max: 100}
\*   venue           absent, '', 'Arx'
\*   recency_days    absent, 0, 365
FilterPool ==
    { a @@ t @@ c @@ v @@ r :
        a \in Optional("author_name", { <<>>, <<97, 110, 110>> }),
        t \in Optional("title_keywords", { <<65, 44, 32, 99>>,
                                           <<32, 66, 99, 44, 120>> }),
        c \in Optional("citation_range",
                       { EmptyDict, [min |-> 10], [min |-> 10, max |-> 100] }),
        v \in Optional("venue", { <<>>, <<65, 114, 120>> }),
        r \in Optional("recency_days", { 0, 365 }) }

\* the configurations in which the author, the title 'A, c', the citation
\* range 10..100 and the recency predicate are all active, with or without
\* the venue predicate
ActiveFilterPool ==
    { f \in FilterPool :
        /\ {"author_name", "title_keywords", "citation_range", "recency_days"}
               \subseteq DOMAIN f
        /\ f["author_name"] # <<>>
        /\ f["title_keywords"] = <<65, 44, 32, 99>>
        /\ f["citation_range"] = [min |-> 10, max |-> 100]
        /\ f["recency_days"] # 0
        /\ "venue" \in DOMAIN f => f["venue"] # <<>> }

\* datetime.now(): midnight of 2027-01-01, and later that day
NowPool == { [day |-> Jan1(2027), tod |-> 0], [day |-> Jan1(2027), tod |-> 1] }

\* a call that filters the caller's list in place
FilterPapersAdvanced_in_place ==
    /\ flt_ret' = [called |-> TRUE,
                   value |-> filter_papers_advanced(flt_papers, flt_filters, flt_now)]
    /\ flt_papers' = filter_papers_advanced(flt_papers, flt_filters, flt_now)
    /\ UNCHANGED <<flt_filters, flt_now>>
    /\ UNCHANGED <<avlVars, rbVars, acVars, qryVars, engVars, insVars, sugVars>>

\* filtered_papers = search_engine.filter_papers_advanced(papers, filters)
FilterPapersAdvanced ==
    /\ flt_ret' = [called |-> TRUE,
                   value |-> filter_papers_advanced(flt_papers, flt_filters, flt_now)]
    /\ UNCHANGED <<flt_papers, flt_filters, flt_now>>
    /\ UNCHANGED <<avlVars, rbVars, acVars, qryVars, engVars, insVars, sugVars>>

(***************************************************************************)
(* AdvancedSearchEngine.smart_autocomplete (src/advanced_search.py).       *)
(***************************************************************************)
\* seq[:n]
Take(seq, n) == SubSeq(seq, 1, Min(n, Len(seq)))

\* seq without its i-th element
Without(seq, i) == SubSeq(seq, 1, i - 1) \o SubSeq(seq, i + 1, Len(seq))

\* the order of the (score, string) tuples heapq.nlargest sorts by
ScoredLess(word, x, y) ==
    LET rx == ratio(x, word)
        ry == ratio(y, word)
    IN \/ rx.num * ry.den < ry.num * rx.den
       \/ rx.num * ry.den = ry.num * rx.den /\ StrLt(x, y)

\* heapq.nlargest(n, result): the n largest, largest first
RECURSIVE nlargest(_, _, _)
nlargest(n, word, cands) ==
    IF n = 0 \/ cands = <<>> THEN <<>>
    ELSE LET i == CHOOSE k \in 1..Len(cands) :
                      /\ \A m \in 1..Len(cands) : ~ScoredLess(word, cands[k], cands[m])
                      /\ \A m \in 1..(k - 1) : ScoredLess(word, cands[m], cands[k])
         IN <<cands[i]>> \o nlargest(n - 1, word, Without(cands, i))

\* difflib.get_close_matches(word, possibilities, n, cutoff=0.6)
get_close_matches(word, possibilities, n) ==
    nlargest(n, word,
             SelectSeq(possibilities, LAMBDA x :
                 10 * ratio(x, word).num >= 6 * ratio(x, word).den))

\* the loop that was to drop repeats, dropping none
dedup_keeps_repeats(suggestions) == suggestions

\* the seen-set loop: the first occurrence of every string, in order
RECURSIVE dedup(_)
dedup(suggestions) ==
    IF suggestions = <<>> THEN <<>>
    ELSE LET front == dedup(SubSeq(suggestions, 1, Len(suggestions) - 1))
             last == suggestions[Len(suggestions)]
         IN IF last \in SetOf(front) THEN front ELSE Append(front, last)

\* the history matches merged ahead of the fuzzy matches
smart_autocomplete_history_first(prefix, paper_titles, search_history) ==
    LET title_matches_ == SelectSeq(paper_titles, LAMBDA title :
                              startswith(lower(title), lower(prefix)))
        fuzzy_matches == get_close_matches(prefix, paper_titles, 3)
        history_matches == SelectSeq(search_history, LAMBDA query :
                               StrIn(lower(prefix), lower(query)))
        suggestions == Take(title_matches_, 3) \o Take(history_matches, 2)
                           \o fuzzy_matches
    IN Take(dedup(suggestions), 8)

smart_autocomplete(prefix, paper_titles, search_history) ==
    LET title_matches_ == SelectSeq(paper_titles, LAMBDA title :
                              startswith(lower(title), lower(prefix)))
        fuzzy_matches == get_close_matches(prefix, paper_titles, 3)
        history_matches == SelectSeq(search_history, LAMBDA query :
                               StrIn(lower(prefix), lower(query)))
        suggestions == Take(title_matches_, 3) \o fuzzy_matches
                           \o Take(history_matches, 2)
    IN Take(dedup(suggestions), 8)

\* the cached titles: ab Ab abc b
AcTitlePool == { <<97, 98>>, <<65, 98>>, <<97, 98, 99>>, <<98>> }

\* the recorded queries: abc, x ab, b a
AcHistoryPool == { <<97, 98, 99>>, <<120, 32, 97, 98>>, <<98, 32, 97>> }

\* a cache of six titles, AB Ab aB ab b a: for the prefix ab the first three
\* match by prefix only and the last three by the fuzzy matcher only
SixTitles == << <<65, 66>>, <<65, 98>>, <<97, 66>>, <<97, 98>>, <<98>>, <<97>> >>

\* a history of three queries, "b a", "x ab", abc, each containing the
\* prefix a: one more than the suggestions take from the history
ThreeQueries == << <<98, 32, 97>>, <<120, 32, 97, 98>>, <<97, 98, 99>> >>

\* the prefixes typed: "" a ab
AcPrefixPool == { <<>>, <<97>>, <<97, 98>> }

\* suggestions = search_engine.smart_autocomplete(prefix, all_titles, search_history)
SmartAutocomplete ==
    /\ ac_ret' = [called |-> TRUE,
                  value |-> smart_autocomplete(ac_prefix, ac_titles, ac_history)]
    /\ UNCHANGED <<ac_prefix, ac_titles, ac_history>>
    /\ UNCHANGED <<avlVars, rbVars, fltVars, qryVars, engVars, insVars, sugVars>>

(***************************************************************************)
(* Query analysis (AdvancedSearchEngine.analyze_query).  The regular       *)
(* expressions are matched as re matches them: scanning from the left,     *)
(* each match starting where the previous one ended.  A match is the pair  *)
(* or triple of the positions it covers.                                   *)
(***************************************************************************)
\* \w, on the characters of the model: digits, letters and the underscore
IsWordChar(c) ==
    \/ c >= 48 /\ c <= 57
    \/ c >= 65 /\ c <= 90
    \/ c = 95
    \/ c >= 97 /\ c <= 122

\* \b at position i of s: exactly one of s[i - 1], s[i] is a word character
WordBoundary(s, i) ==
    (i > 1 /\ IsWordChar(s[i - 1])) # (i <= Len(s) /\ IsWordChar(s[i]))

\* \w+ from position i, greedy: the last position it takes, i - 1 if none
WordRunEnd(s, i) ==
    CHOOSE e \in (i - 1)..Len(s) :
        /\ \A j \in i..e : IsWordChar(s[j])
        /\ e = Len(s) \/ ~IsWordChar(s[e + 1])

\* [^\s]+ from position i, greedy: the last position it takes, i - 1 if none
NonSpaceRunEnd(s, i) ==
    CHOOSE e \in (i - 1)..Len(s) :
        /\ \A j \in i..e : ~IsSpace(s[j])
        /\ e = Len(s) \/ IsSpace(s[e + 1])

Least(S) == CHOOSE x \in S : \A y \in S : x <= y

\* the matches of "([^"]*)" from position i on: <<opening, closing>>
RECURSIVE quoted_pattern(_, _)
quoted_pattern(s, i) ==
    LET marks == { k \in i..Len(s) : s[k] = 34 }
    IN IF Cardinality(marks) < 2 THEN <<>>
       ELSE LET a == Least(marks)
                b == Least(marks \ {a})
            IN << <<a, b>> >> \o quoted_pattern(s, b + 1)

\* the pattern with a field name that may be empty, (\w*):([^\s]+)
RECURSIVE field_pattern_empty_name(_, _)
field_pattern_empty_name(s, i) ==
    IF i > Len(s) THEN <<>>
    ELSE LET e == WordRunEnd(s, i)
             v == NonSpaceRunEnd(s, e + 2)
         IN IF e + 1 <= Len(s) /\ s[e + 1] = 58 /\ v >= e + 2
            THEN << <<i, e + 1, v>> >> \o field_pattern_empty_name(s, v + 1)
            ELSE field_pattern_empty_name(s, i + 1)

\* the matches of (\w+):([^\s]+) from position i on: <<first, colon, last>>
RECURSIVE field_pattern(_, _)
field_pattern(s, i) ==
    IF i > Len(s) THEN <<>>
    ELSE LET e == WordRunEnd(s, i)
             v == NonSpaceRunEnd(s, e + 2)
         IN IF e >= i /\ e + 1 <= Len(s) /\ s[e + 1] = 58 /\ v >= e + 2
            THEN << <<i, e + 1, v>> >> \o field_pattern(s, v + 1)
            ELSE field_pattern(s, i + 1)

\* re.sub(pattern, '', s): s without the positions the matches cover
re_sub(matches, s) ==
    LET keep == { k \in 1..Len(s) : \A m \in 1..Len(matches) :
                      k < matches[m][1] \/ k > matches[m][Len(matches[m])] }
    IN [k \in 1..Cardinality(keep) |->
           s[CHOOSE i \in keep : Cardinality({ j \in keep : j <= i }) = k]]

\* AND, OR, NOT
Operators == << <<65, 78, 68>>, <<79, 82>>, <<78, 79, 84>> >>

\* re.findall(r'\b(AND|OR|NOT)\b', s, re.IGNORECASE) from position i on
RECURSIVE boolean_pattern(_, _)
boolean_pattern(s, i) ==
    IF i > Len(s) THEN <<>>
    ELSE LET hits == { a \in 1..Len(Operators) :
                         /\ WordBoundary(s, i)
                         /\ i + Len(Operators[a]) - 1 <= Len(s)
                         /\ lower(SubSeq(s, i, i + Len(Operators[a]) - 1))
                                = lower(Operators[a])
                         /\ WordBoundary(s, i + Len(Operators[a])) }
         IN IF hits # {}
            THEN LET e == i + Len(Operators[Least(hits)]) - 1
                 IN <<SubSeq(s, i, e)>> \o boolean_pattern(s, e + 1)
            ELSE boolean_pattern(s, i + 1)

\* re.findall(r'\b\w+\b', s) from position i on
RECURSIVE word_pattern(_, _)
word_pattern(s, i) ==
    IF i > Len(s) THEN <<>>
    ELSE IF WordBoundary(s, i) /\ IsWordChar(s[i])
         THEN LET e == WordRunEnd(s, i)
              IN <<SubSeq(s, i, e)>> \o word_pattern(s, e + 1)
         ELSE word_pattern(s, i + 1)

\* ['and', 'or', 'not']
StopOperators == { <<97, 110, 100>>, <<111, 114>>, <<110, 111, 116>> }

\* ['survey', 'review', 'overview']
SurveyWords == { <<115, 117, 114, 118, 101, 121>>,
                 <<114, 101, 118, 105, 101, 119>>,
                 <<111, 118, 101, 114, 118, 105, 101, 119>> }

\* ['method', 'algorithm', 'technique']
MethodologyWords == { <<109, 101, 116, 104, 111, 100>>,
                      <<97, 108, 103, 111, 114, 105, 116, 104, 109>>,
                      <<116, 101, 99, 104, 110, 105, 113, 117, 101>> }

\* ['dataset', 'data', 'benchmark']
DatasetWords == { <<100, 97, 116, 97, 115, 101, 116>>,
                  <<100, 97, 116, 97>>,
                  <<98, 101, 110, 99, 104, 109, 97, 114, 107>> }

\* any(word in keywords for word in words)
any_in(words, keywords) == \E k \in 1..Len(keywords) : keywords[k] \in words

\* the dataset triggers tried before the survey and methodology triggers
intent_dataset_first(keywords) ==
    IF any_in(DatasetWords, keywords) THEN "dataset"
    ELSE IF any_in(SurveyWords, keywords) THEN "survey"
    ELSE IF any_in(MethodologyWords, keywords) THEN "methodology"
    ELSE "general"

\* the classification made only while the engine has recorded no search
intent_until_recorded(keywords) ==
    IF self_search_history # <<>> THEN "general"
    ELSE IF any_in(SurveyWords, keywords) THEN "survey"
    ELSE IF any_in(MethodologyWords, keywords) THEN "methodology"
    ELSE IF any_in(DatasetWords, keywords) THEN "dataset"
    ELSE "general"

\* the if/elif chain over the keywords
intent(keywords) ==
    IF any_in(SurveyWords, keywords) THEN "survey"
    ELSE IF any_in(MethodologyWords, keywords) THEN "methodology"
    ELSE IF any_in(DatasetWords, keywords) THEN "dataset"
    ELSE "general"

\* analyze_query that takes the intent from every word of the query
analyze_query_intent_from_query(query) ==
    LET quotes == quoted_pattern(query, 1)
        clean_quoted == re_sub(quotes, query)
        field_matches == field_pattern(clean_quoted, 1)
        field(m) == lower(SubSeq(clean_quoted, field_matches[m][1],
                                 field_matches[m][2] - 1))
        value(m) == SubSeq(clean_quoted, field_matches[m][2] + 1,
                           field_matches[m][3])
        clean_query == re_sub(field_matches, clean_quoted)
        boolean_ops == boolean_pattern(clean_query, 1)
        keywords == SelectSeq(word_pattern(lower(clean_query), 1),
                              LAMBDA k : k \notin StopOperators)
    IN [keywords |-> keywords,
        quoted_phrases |-> [k \in 1..Len(quotes) |->
            SubSeq(query, quotes[k][1] + 1, quotes[k][2] - 1)],
        boolean_operators |-> boolean_ops,
        field_queries |-> [f \in { field(m) : m \in 1..Len(field_matches) } |->
            value(CHOOSE m \in 1..Len(field_matches) :
                      /\ field(m) = f
                      /\ \A n \in (m + 1)..Len(field_matches) : field(n) # f)],
        intent |-> intent(word_pattern(lower(query), 1))]

analyze_query(query) ==
    LET quotes == quoted_pattern(query, 1)
        clean_quoted == re_sub(quotes, query)
        field_matches == field_pattern(clean_quoted, 1)
        field(m) == lower(SubSeq(clean_quoted, field_matches[m][1],
                                 field_matches[m][2] - 1))
        value(m) == SubSeq(clean_quoted, field_matches[m][2] + 1,
                           field_matches[m][3])
        clean_query == re_sub(field_matches, clean_quoted)
        boolean_ops == boolean_pattern(clean_query, 1)
        keywords == SelectSeq(word_pattern(lower(clean_query), 1),
                              LAMBDA k : k \notin StopOperators)
    IN [keywords |-> keywords,
        quoted_phrases |-> [k \in 1..Len(quotes) |->
            SubSeq(query, quotes[k][1] + 1, quotes[k][2] - 1)],
        boolean_operators |-> boolean_ops,
        field_queries |-> [f \in { field(m) : m \in 1..Len(field_matches) } |->
            value(CHOOSE m \in 1..Len(field_matches) :
                      /\ field(m) = f
                      /\ \A n \in (m + 1)..Len(field_matches) : field(n) # f)],
        intent |-> intent(keywords)]

\* the texts a query is put together from:
\* survey data method AND Or x "q", the space, the double quote, the colon
QueryPieces == { <<115, 117, 114, 118, 101, 121>>, <<100, 97, 116, 97>>,
                 <<109, 101, 116, 104, 111, 100>>, <<65, 78, 68>>, <<79, 114>>,
                 <<120>>, <<34, 113, 34>>, <<32>>, <<34>>, <<58>> }

\* the pieces of a sequence, joined
RECURSIVE Concat(_)
Concat(pieces) ==
    IF pieces = <<>> THEN <<>> ELSE Head(pieces) \o Concat(Tail(pieces))

\* author:smith "deep learning" AND survey
ExampleQuery ==
    << 97, 117, 116, 104, 111, 114, 58, 115, 109, 105, 116, 104, 32,
       34, 100, 101, 101, 112, 32, 108, 101, 97, 114, 110, 105, 110,
       103, 34, 32, 65, 78, 68, 32, 115, 117, 114, 118, 101, 121 >>

\* AND"q"x, A"q"ND and NOT x: a quoted phrase next to letters, and the third
\* operator
GluedQueries == { <<65, 78, 68, 34, 113, 34, 120>>, <<65, 34, 113, 34, 78, 68>>,
                  <<78, 79, 84, 32, 120>> }

\* title:survey
TitleSurveyQuery == <<116, 105, 116, 108, 101, 58, 115, 117, 114, 118, 101, 121>>

QueryPool ==
    { Concat(p) : p \in SeqsUpTo(QueryPieces, MaxPieces) }
        \cup { ExampleQuery, TitleSurveyQuery } \cup GluedQueries

\* query_analysis = search_engine.analyze_query(query); aq_returned is the
\* list of the calls made: the query, the analysis returned, and the number
\* of searches the engine had recorded by then
AnalyzeQuery ==
    /\ Len(aq_returned) < MaxAnalyses
    /\ aq_ret' = [called |-> TRUE, value |-> analyze_query(aq_query)]
    /\ aq_returned' = Append(aq_returned,
           [query |-> aq_query,
            analysis |-> analyze_query(aq_query),
            searches |-> BagTotal(self_popular_queries,
                                  DOMAIN self_popular_queries)])
    /\ UNCHANGED aq_query
    /\ UNCHANGED <<avlVars, rbVars, fltVars, acVars, engVars, insVars, sugVars>>

(***************************************************************************)
(* The engine's record of searches (AdvancedSearchEngine.record_search).   *)
(***************************************************************************)
\* the length search_history is cut back to
HistoryLimit == 1000

\* seq[-n:]
Last(seq, n) == SubSeq(seq, Max(1, Len(seq) - n + 1), Len(seq))

\* record_search that cuts the history to its first 1000 records
record_search_keeps_oldest(search_history, popular_queries, query, result_count, now) ==
    LET search_record == [query |-> query, timestamp |-> now,
                          result_count |-> result_count]
        appended == Append(search_history, search_record)
    IN [search_history |->
            IF Len(appended) > HistoryLimit
            THEN SubSeq(appended, 1, HistoryLimit) ELSE appended,
        popular_queries |->
            IF query \in DOMAIN popular_queries
            THEN [popular_queries EXCEPT ![query] = @ + 1]
            ELSE popular_queries @@ (query :> 1)]

\* record_search on an engine with the given search_history and
\* popular_queries: the two as the call leaves them
record_search(search_history, popular_queries, query, result_count, now) ==
    LET search_record == [query |-> query, timestamp |-> now,
                          result_count |-> result_count]
        appended == Append(search_history, search_record)
    IN [search_history |->
            IF Len(appended) > HistoryLimit
            THEN Last(appended, HistoryLimit) ELSE appended,
        popular_queries |->
            IF query \in DOMAIN popular_queries
            THEN [popular_queries EXCEPT ![query] = @ + 1]
            ELSE popular_queries @@ (query :> 1)]

\* the queries of the requests: data, x
RequestPool == { <<100, 97, 116, 97>>, <<120>> }

\* an engine that has served requests before: the time of those calls, the
\* record of the i-th of them (the queries x and data in turn, i papers
\* found), and search_history and popular_queries after n such calls
EarlierTime == [day |-> Jan1(2026), tod |-> 0]

EarlierRecord(i) ==
    [query |-> IF i % 2 = 0 THEN <<100, 97, 116, 97>> ELSE <<120>>,
     timestamp |-> EarlierTime, result_count |-> i]

EarlierHistory(n) ==
    LET kept == Min(n, HistoryLimit)
    IN [i \in 1..kept |-> EarlierRecord(n - kept + i)]

EarlierCounts(n) ==
    (<<100, 97, 116, 97>> :> (n \div 2)) @@ (<<120>> :> (n - (n \div 2)))

\* the numbers of earlier calls: one short of the limit, the limit, two more
EarlierCalls == { HistoryLimit - 1, HistoryLimit, HistoryLimit + 2 }

\* query = data.get('query', ''): a request arrives
NewQuery ==
    /\ \E query \in RequestPool :
           aq_query' = query
    /\ aq_ret' = NotCalled
    /\ UNCHANGED aq_returned
    /\ UNCHANGED <<avlVars, rbVars, fltVars, acVars, engVars, insVars, sugVars>>

\* search_engine.record_search(query, len(filtered_papers)), at the end of
\* the request
RecordSearch ==
    /\ aq_ret.called
    /\ Cardinality({ i \in 1..Len(self_search_history) :
                        self_search_history[i].timestamp \in NowPool }) < MaxSearches
    /\ \E result_count \in 0..1, now \in NowPool :
           LET after == record_search(self_search_history, self_popular_queries,
                                      aq_query, result_count, now)
           IN /\ self_search_history' = after.search_history
              /\ self_popular_queries' = after.popular_queries
    /\ UNCHANGED self_trending_topics
    /\ UNCHANGED <<avlVars, rbVars, fltVars, acVars, qryVars, insVars, sugVars>>

(***************************************************************************)
(* AdvancedSearchEngine.generate_search_insights.                          *)
(***************************************************************************)
\* the decimal digits of n >= 0
RECURSIVE Digits(_)
Digits(n) ==
    IF n < 10 THEN <<48 + n>> ELSE Digits(n \div 10) \o <<48 + (n % 10)>>

\* str(n), as an f-string renders an int
str(n) == IF n < 0 THEN <<45>> \o Digits(0 - n) ELSE Digits(n)

RECURSIVE Pow10(_)
Pow10(k) == IF k = 0 THEN 1 ELSE 10 * Pow10(k - 1)

\* f"{num / den:.<places>f}" for num >= 0 and den > 0: the quotient rounded
\* to the nearest multiple of 10^-places, a tie to the even neighbour (a tie
\* falls on a quotient a float holds exactly)
format_f(num, den, places) ==
    LET scale == Pow10(places)
        q == (num * scale) \div den
        r == (num * scale) % den
        rounded == IF 2 * r > den \/ (2 * r = den /\ q % 2 = 1)
                   THEN q + 1 ELSE q
        frac == Digits(rounded % scale)
    IN Digits(rounded \div scale) \o <<46>>
           \o [k \in 1..(places - Len(frac)) |-> 48] \o frac

\* the items() of a defaultdict(int) that counted the keys in this order:
\* <<key, count>> pairs, in the order the keys were first seen
RECURSIVE count_items(_)
count_items(keys) ==
    IF keys = <<>> THEN <<>>
    ELSE LET items == count_items(SubSeq(keys, 1, Len(keys) - 1))
             key == keys[Len(keys)]
         IN IF \E i \in 1..Len(items) : items[i][1] = key
            THEN [i \in 1..Len(items) |->
                     IF items[i][1] = key
                     THEN <<key, items[i][2] + 1>> ELSE items[i]]
            ELSE Append(items, <<key, 1>>)

\* variant: the last item of the largest count
max_count_last(items) ==
    items[CHOOSE i \in 1..Len(items) :
              /\ \A j \in 1..Len(items) : items[j][2] <= items[i][2]
              /\ \A j \in (i + 1)..Len(items) : items[j][2] < items[i][2]]

\* max(items, key=lambda x: x[1]): the first item of the largest count
max_count(items) ==
    items[CHOOSE i \in 1..Len(items) :
              /\ \A j \in 1..Len(items) : items[j][2] <= items[i][2]
              /\ \A j \in 1..(i - 1) : items[j][2] < items[i][2]]

\* the keys the first loop counts: int(year) of the records whose year is
\* not the sentinel and converts
RECURSIVE counted_years(_)
counted_years(papers) ==
    IF papers = <<>> THEN <<>>
    ELSE LET year == get(Head(papers), "year", PyNone)
         IN (IF ~(year.t = "str" /\ year.s = YearSentinel) /\ int(year).ok
             THEN <<int(year).n>> ELSE <<>>)
                \o counted_years(Tail(papers))

\* all_authors
RECURSIVE all_authors(_)
all_authors(papers) ==
    IF papers = <<>> THEN <<>>
    ELSE LET authors == split(get(Head(papers), "authors", <<>>), <<44, 32>>)
             stripped == [i \in 1..Len(authors) |-> strip(authors[i])]
         IN SelectSeq(stripped, LAMBDA a : a # <<>>)
                \o all_authors(Tail(papers))

\* title_words
RECURSIVE title_words(_)
title_words(papers) ==
    IF papers = <<>> THEN <<>>
    ELSE SelectSeq(word_pattern(lower(get(Head(papers), "title", <<>>)), 1),
                   LAMBDA w : Len(w) > 4)
             \o title_words(Tail(papers))

RECURSIVE sum(_)
sum(numbers) ==
    IF numbers = <<>> THEN 0 ELSE Head(numbers) + sum(Tail(numbers))

generate_search_insights(papers) ==
    LET year_counts == count_items(counted_years(papers))
        peak_year == max_count(year_counts)
        author_counts == count_items(all_authors(papers))
        prolific_authors == SelectSeq(author_counts, LAMBDA item : item[2] > 1)
        citations == [i \in 1..Len(papers) |-> get_citation_count(papers[i])]
        \* c > avg_citations * 2
        high_impact == SelectSeq(citations, LAMBDA c :
                           c * Len(citations) > 2 * sum(citations))
        words == title_words(papers)
    IN (IF year_counts # <<>>
        THEN [peak_year |->
                  << 80, 101, 97, 107, 32, 112, 117, 98, 108, 105, 99, 97, 116, 105,
                      111, 110, 32, 121, 101, 97, 114, 58, 32 >>
                      \o str(peak_year[1]) \o <<32, 40>> \o str(peak_year[2])
                      \o <<32, 112, 97, 112, 101, 114, 115, 41>>]
        ELSE EmptyDict)
       @@ (IF prolific_authors # <<>>
           THEN [prolific_authors |->
                     <<70, 111, 117, 110, 100, 32>> \o str(Len(prolific_authors))
                         \o << 32, 97, 117, 116, 104, 111, 114, 115, 32, 119, 105, 116, 104, 32,
                         109, 117, 108, 116, 105, 112, 108, 101, 32, 112, 97, 112, 101, 114,
                         115 >>]
           ELSE EmptyDict)
       @@ (IF citations # <<>>
           THEN [impact_analysis |->
                     << 65, 118, 101, 114, 97, 103, 101, 32, 99, 105, 116, 97, 116, 105,
                         111, 110, 115, 58, 32 >>
                         \o format_f(sum(citations), Len(citations), 1)
                         \o << 44, 32, 72, 105, 103, 104, 45, 105, 109, 112, 97, 99, 116, 32,
                            112, 97, 112, 101, 114, 115, 58, 32 >>
                         \o str(Len(high_impact))]
           ELSE EmptyDict)
       @@ [diversity |->
               << 84, 111, 112, 105, 99, 32, 100, 105, 118, 101, 114, 115, 105, 116,
               121, 32, 115, 99, 111, 114, 101, 58, 32 >>
                   \o (IF words # <<>>
                       THEN format_f(Cardinality(SetOf(words)), Len(words), 2)
                       ELSE format_f(0, 1, 2))]

\* records with longer titles: "graph graph" by Ann and Bob in '2026',
\* "Graph Learning" by Ann in 2025, "learning" by Bob with a year and a
\* citation count that are no numbers
InsightPapers ==
    { [title |-> << 103, 114, 97, 112, 104, 32, 103, 114, 97, 112, 104 >>,
       authors |-> <<65, 110, 110, 44, 32, 66, 111, 98>>,
       year |-> PyStr(<<50, 48, 50, 54>>), citation_count |-> PyNum(10)],
      [title |-> << 71, 114, 97, 112, 104, 32, 76, 101, 97, 114, 110, 105, 110, 103 >>,
       authors |-> <<65, 110, 110>>, year |-> PyNum(2025), citation_count |-> PyNum(50)],
      [title |-> <<108, 101, 97, 114, 110, 105, 110, 103>>,
       authors |-> <<66, 111, 98, 44, 32>>, year |-> PyStr(<<120>>),
       citation_count |-> PyStr(<<110, 47, 97>>)] }

InsightPool == PaperPool \cup InsightPapers

\* record lists of three: the years 2025, '2026', 2026 (the largest count is
\* not the first year met), and 2026, the sentinel, 2025 (a tie)
YearLists ==
    LET y2025 == [source |-> SrcCross, title |-> <<66, 99>>, authors |-> <<97, 110, 110>>,
                  year |-> PyNum(2025), citation_count |-> PyNum(50)]
        s2026 == [source |-> SrcArxiv, title |-> <<97, 98>>,
                  authors |-> <<65, 110, 110, 44, 32, 66, 111, 98>>,
                  year |-> PyStr(<<50, 48, 50, 54>>),
                  citation_count |-> PyStr(CitationSentinel)]
        n2026 == [venue |-> <<65, 82, 88>>, title |-> <<97, 98, 99>>,
                  authors |-> <<65, 110>>,
                  year |-> PyNum(2026), citation_count |-> PyStr(<<49, 48>>)]
        unknown == [source |-> SrcCross, title |-> <<99>>, authors |-> <<66, 111, 98>>,
                    year |-> PyStr(YearSentinel), citation_count |-> PyNum(150)]
    IN { <<y2025, s2026, n2026>>, <<n2026, unknown, y2025>> }

\* insights = search_engine.generate_search_insights(filtered_papers)
GenerateSearchInsights ==
    /\ gi_ret' = [called |-> TRUE, value |-> generate_search_insights(gi_papers)]
    /\ UNCHANGED gi_papers
    /\ UNCHANGED <<avlVars, rbVars, fltVars, acVars, qryVars, engVars, sugVars>>

(***************************************************************************)
(* AdvancedSearchEngine.suggest_related_queries.                           *)
(***************************************************************************)
\* ' '.join(strings)
RECURSIVE join_space(_)
join_space(strings) ==
    IF strings = <<>> THEN <<>>
    ELSE IF Len(strings) = 1 THEN strings[1]
    ELSE strings[1] \o <<32>> \o join_space(Tail(strings))

\* str.split() from position i on: the runs of characters that are no
\* white space
RECURSIVE split_whitespace(_, _)
split_whitespace(s, i) ==
    IF i > Len(s) THEN <<>>
    ELSE IF IsSpace(s[i]) THEN split_whitespace(s, i + 1)
    ELSE LET e == NonSpaceRunEnd(s, i)
         IN <<SubSeq(s, i, e)>> \o split_whitespace(s, e + 1)

\* ['paper', 'study', 'research', 'analysis']
StopWords == { <<112, 97, 112, 101, 114>>, <<115, 116, 117, 100, 121>>,
               <<114, 101, 115, 101, 97, 114, 99, 104>>,
               <<97, 110, 97, 108, 121, 115, 105, 115>> }

\* the items sorted by rising count
sorted_by_count_ascending(items) ==
    LET rank(i) == Cardinality({ j \in 1..Len(items) : items[j][2] < items[i][2] })
                   + Cardinality({ j \in 1..(i - 1) : items[j][2] = items[i][2] })
                   + 1
    IN [k \in 1..Len(items) |-> items[CHOOSE i \in 1..Len(items) : rank(i) = k]]

\* sorted(items, key=lambda x: x[1], reverse=True): by falling count, items
\* of equal count in the order they had
sorted_by_count(items) ==
    LET rank(i) == Cardinality({ j \in 1..Len(items) : items[j][2] > items[i][2] })
                   + Cardinality({ j \in 1..(i - 1) : items[j][2] = items[i][2] })
                   + 1
    IN [k \in 1..Len(items) |-> items[CHOOSE i \in 1..Len(items) : rank(i) = k]]

\* raised is TRUE where paper['title'] raises KeyError
suggest_related_queries(query, papers) ==
    IF \E i \in 1..Len(papers) : "title" \notin DOMAIN papers[i]
    THEN [raised |-> TRUE, value |-> <<>>]
    ELSE LET all_text == join_space([i \in 1..Len(papers) |-> papers[i].title])
             words == word_pattern(lower(all_text), 1)
             word_freq == count_items(SelectSeq(words, LAMBDA word :
                              Len(word) > 3 /\ word \notin StopWords))
             query_words == SetOf(split_whitespace(lower(query), 1))
             top_words == Take(sorted_by_count(word_freq), 10)
             chosen == SelectSeq(top_words, LAMBDA item :
                           item[1] \notin query_words /\ item[2] > 1)
             suggestions == [k \in 1..Len(chosen) |->
                                query \o <<32>> \o chosen[k][1]]
         IN [raised |-> FALSE, value |-> Take(suggestions, 5)]

\* the records suggestions are drawn from, by title: "deep nets deep",
\* "Deep Learning nets", "paper study deep", "data sets", "a b cat", and a
\* record without a title
SuggestPool ==
    { [title |-> << 100, 101, 101, 112, 32, 110, 101, 116, 115, 32, 100, 101, 101, 112 >>],
      [title |-> << 68, 101, 101, 112, 32, 76, 101, 97, 114, 110, 105, 110, 103, 32,
                   110, 101, 116, 115 >>],
      [title |-> << 112, 97, 112, 101, 114, 32, 115, 116, 117, 100, 121, 32, 100, 101,
                   101, 112 >>],
      [title |-> << 100, 97, 116, 97, 32, 115, 101, 116, 115 >>],
      [title |-> << 97, 32, 98, 32, 99, 97, 116 >>],
      [authors |-> <<65, 110, 110>>] }

\* one record whose title holds six words twice: alpha beta gamma delta
\* kappa sigma alpha beta gamma delta kappa sigma
SixWordsTwice ==
    << [title |-> << 97, 108, 112, 104, 97, 32, 98, 101, 116, 97, 32, 103, 97, 109,
                    109, 97, 32, 100, 101, 108, 116, 97, 32, 107, 97, 112, 112, 97,
                    32, 115, 105, 103, 109, 97, 32, 97, 108, 112, 104, 97, 32, 98,
                    101, 116, 97, 32, 103, 97, 109, 109, 97, 32, 100, 101, 108, 116,
                    97, 32, 107, 97, 112, 112, 97, 32, 115, 105, 103, 109, 97 >>] >>

\* one record whose title holds eleven words twice: alpha beta gamma delta
\* kappa sigma theta omega lambda iota zeta, and the same again
ElevenWordsTwice ==
    << [title |-> << 97, 108, 112, 104, 97, 32, 98, 101, 116, 97, 32, 103, 97, 109,
                    109, 97, 32, 100, 101, 108, 116, 97, 32, 107, 97, 112, 112, 97,
                    32, 115, 105, 103, 109, 97, 32, 116, 104, 101, 116, 97, 32, 111,
                    109, 101, 103, 97, 32, 108, 97, 109, 98, 100, 97, 32, 105, 111,
                    116, 97, 32, 122, 101, 116, 97, 32, 97, 108, 112, 104, 97, 32,
                    98, 101, 116, 97, 32, 103, 97, 109, 109, 97, 32, 100, 101, 108,
                    116, 97, 32, 107, 97, 112, 112, 97, 32, 115, 105, 103, 109, 97,
                    32, 116, 104, 101, 116, 97, 32, 111, 109, 101, 103, 97, 32, 108,
                    97, 109, 98, 100, 97, 32, 105, 111, 116, 97, 32, 122, 101, 116,
                    97 >>] >>

\* the query made of the first six of them
SixWordQuery ==
    << 97, 108, 112, 104, 97, 32, 98, 101, 116, 97, 32, 103, 97, 109,
       109, 97, 32, 100, 101, 108, 116, 97, 32, 107, 97, 112, 112, 97,
       32, 115, 105, 103, 109, 97 >>

\* the queries: "", deep, "Deep nets", x
SuggestQueries == { <<>>, <<100, 101, 101, 112>>, <<68, 101, 101, 112, 32, 110, 101, 116, 115>>, <<120>> }

\* related_queries = search_engine.suggest_related_queries(query, filtered_papers)
SuggestRelatedQueries ==
    /\ sq_ret' = [called |-> TRUE,
                  raised |-> suggest_related_queries(sq_query, sq_papers).raised,
                  value |-> suggest_related_queries(sq_query, sq_papers).value]
    /\ UNCHANGED <<sq_query, sq_papers>>
    /\ UNCHANGED <<avlVars, rbVars, fltVars, acVars, qryVars, engVars, insVars>>

(***************************************************************************)
(* Properties of the title index (AVLTree).                                *)
(***************************************************************************)
RECURSIVE TrueHeight(_)
TrueHeight(node) ==
    IF node = None THEN 0
    ELSE 1 + Max(TrueHeight(node[3]), TrueHeight(node[4]))

RECURSIVE AVLBalanced(_)
AVLBalanced(node) ==
    \/ node = None
    \/ /\ Abs(TrueHeight(node[3]) - TrueHeight(node[4])) <= 1
       /\ AVLBalanced(node[3])
       /\ AVLBalanced(node[4])

\* C1: after any sequence of AVLTree.insert calls from the empty tree, every
\* node's subtrees differ in true height by at most 1.
C1_AVLBalance == AVLBalanced(avl_root)

\* occurrences of x in seq
Count(seq, x) == Cardinality({ i \in 1..Len(seq) : seq[i] = x })

\* C6: autocomplete(root, prefix) returns every inserted title that starts
\* with the prefix as many times as it was inserted, and nothing else.
C6_AutocompleteExact ==
    avl_call.op = "autocomplete" =>
        /\ \A t \in TitlePool :
               Count(avl_call.results, t) =
                   IF startswith(t, avl_call.prefix) THEN avl_titles[t] ELSE 0
        /\ SetOf(avl_call.results) \subseteq TitlePool

\* a completion of "a" over six titles, a title inserted twice, one title
\* outside the prefix, on a tree whose root is no longer the first node
C6_Witness ==
    /\ avl_call.op = "autocomplete"
    /\ avl_call.prefix = <<97>>
    /\ BagTotal(avl_titles, TitlePool) = 6
    /\ avl_titles[<<97, 98>>] = 2
    /\ avl_titles[<<98>>] = 1
    /\ Len(avl_call.results) = 5
    /\ get_height(avl_root) = 3

(***************************************************************************)
(* Properties of the author index (RBTree).                                *)
(***************************************************************************)
\* C2: after any sequence of RBTree.insert calls no red node has a red
\* child (the sentinel counts as black).
C2_NoRedRed ==
    \A n \in RBNodes(rb) :
        rb.color[n] = "red" =>
            /\ rb.color[rb.left[n]] = "black"
            /\ rb.color[rb.right[n]] = "black"

\* a red node with two real black children
C2_Witness ==
    \E n \in RBNodes(rb) :
        /\ rb.color[n] = "red"
        /\ rb.left[n] # NIL
        /\ rb.right[n] # NIL

\* the numbers of black nodes met on the paths from node down to a NIL
RECURSIVE BlackCounts(_, _)
BlackCounts(t, node) ==
    IF node = NIL THEN {0}
    ELSE { c + (IF t.color[node] = "black" THEN 1 ELSE 0) :
             c \in BlackCounts(t, t.left[node]) \cup BlackCounts(t, t.right[node]) }

\* C3: after any sequence of RBTree.insert calls every path from the root to
\* a NIL passes through the same number of black nodes.
C3_UniformBlackHeight == Cardinality(BlackCounts(rb, rb.root)) = 1

\* eight inserts of one author: every path holds two black nodes
C3_Witness ==
    /\ Cardinality(RBNodes(rb)) = 8
    /\ \A n \in RBNodes(rb) : rb.author[n] = <<66, 111, 98>>
    /\ BlackCounts(rb, rb.root) = {2}

\* C4: between RBTree.insert calls the root is black: the sentinel or a
\* real black node.
C4_RootBlack == rb.color[rb.root] = "black"

\* after an insert that moved the root away from the first node
C4_Witness ==
    /\ rb_call.op = "insert"
    /\ Cardinality(RBNodes(rb)) >= 4
    /\ rb.root # NIL
    /\ rb.root # 1

\* C5: list_unique_authors() is strictly ascending under string comparison,
\* holds no string twice, and its elements are exactly the inserted authors.
C5_SortedUniqueAuthors ==
    rb_call.op = "list_unique_authors" =>
        /\ \A i \in 1..(Len(rb_call.ret) - 1) : StrLt(rb_call.ret[i], rb_call.ret[i + 1])
        /\ \A i, j \in 1..Len(rb_call.ret) : i # j => rb_call.ret[i] # rb_call.ret[j]
        /\ SetOf(rb_call.ret) = { rb.author[n] : n \in RBNodes(rb) }

\* inserts Bob, Ann, Bob, ann read back as Ann, Bob, ann
C5_Witness ==
    /\ rb_call.op = "list_unique_authors"
    /\ Cardinality(RBNodes(rb)) = 4
    /\ rb.author[1] = <<66, 111, 98>>
    /\ rb.author[2] = <<65, 110, 110>>
    /\ rb.author[3] = <<66, 111, 98>>
    /\ rb.author[4] = <<97, 110, 110>>
    /\ rb_call.ret = << <<65, 110, 110>>, <<66, 111, 98>>, <<97, 110, 110>> >>

(***************************************************************************)
(* Properties of filter_papers_advanced.                                   *)
(***************************************************************************)
\* the record passes every predicate the configuration activates
Satisfies(paper, filters, now) ==
    /\ ("author_name" \in DOMAIN filters /\ filters["author_name"] # <<>>)
           => author_matches(paper, lower(filters["author_name"]))
    /\ ("title_keywords" \in DOMAIN filters /\ filters["title_keywords"] # <<>>)
           => title_matches(paper, keywords_of(filters["title_keywords"]))
    /\ ("citation_range" \in DOMAIN filters)
           => citation_in_range(paper, filters["citation_range"])
    /\ ("venue" \in DOMAIN filters /\ filters["venue"] # <<>>)
           => venue_matches(paper, lower(filters["venue"]))
    /\ ("recency_days" \in DOMAIN filters /\ filters["recency_days"] # 0)
           => is_recent_paper(paper, [day |-> now.day - filters["recency_days"],
                                      tod |-> now.tod])

\* C7: filter_papers_advanced returns exactly the records that satisfy every
\* active predicate of the configuration, in their original order, none
\* added or repeated; the empty configuration returns all records.
C7_FilterIsConjunction ==
    flt_ret.called =>
        /\ flt_ret.value =
               SelectSeq(flt_papers, LAMBDA p : Satisfies(p, flt_filters, flt_now))
        /\ (flt_filters = EmptyDict => flt_ret.value = flt_papers)

\* two records under an author and a citation predicate: the first matches
\* the author but not the range, the second matches both and is returned
C7_Witness ==
    /\ flt_ret.called
    /\ Len(flt_papers) = 2
    /\ {"author_name", "citation_range", "title_keywords"} \subseteq DOMAIN flt_filters
    /\ flt_filters["author_name"] # <<>>
    /\ author_matches(flt_papers[1], lower(flt_filters["author_name"]))
    /\ title_matches(flt_papers[1], keywords_of(flt_filters["title_keywords"]))
    /\ ~citation_in_range(flt_papers[1], flt_filters["citation_range"])
    /\ flt_ret.value = <<flt_papers[2]>>

\* the citation count of a record as an integer: 0 when the key is missing
\* or the value is not a number
CitationOf(paper) ==
    IF "citation_count" \notin DOMAIN paper THEN 0
    ELSE IF paper["citation_count"].t = "int" THEN paper["citation_count"].n
    ELSE IF paper["citation_count"].t = "str" /\ IsDigits(paper["citation_count"].s)
    THEN DigitsValue(paper["citation_count"].s)
    ELSE 0

\* min <= c <= max, an omitted max unbounded (an omitted min is 0)
InRange(c, range) ==
    /\ c >= (IF "min" \in DOMAIN range THEN range["min"] ELSE 0)
    /\ ("max" \in DOMAIN range => c <= range["max"])

\* C8: with citation_range in the configuration a record is kept iff
\* min <= c <= max, both bounds inclusive, c being 0 for the sentinel, a
\* missing or an unparseable count, and an omitted max unbounded.
C8_CitationRange ==
    (flt_ret.called /\ "citation_range" \in DOMAIN flt_filters) =>
        /\ \A i \in 1..Len(flt_ret.value) :
               InRange(CitationOf(flt_ret.value[i]), flt_filters["citation_range"])
        /\ (DOMAIN flt_filters = {"citation_range"} =>
               flt_ret.value =
                   SelectSeq(flt_papers, LAMBDA p :
                       InRange(CitationOf(p), flt_filters["citation_range"])))

\* {min: 10, max: 100} drops the record with 150 citations and keeps the
\* one with 50
C8_Witness ==
    /\ flt_ret.called
    /\ flt_filters = [citation_range |-> [min |-> 10, max |-> 100]]
    /\ Len(flt_papers) = 2
    /\ CitationOf(flt_papers[1]) = 150
    /\ CitationOf(flt_papers[2]) = 50
    /\ flt_ret.value = <<flt_papers[2]>>

\* the venue/source field of a record
VenueOrSource(paper) ==
    IF "venue" \in DOMAIN paper THEN paper["venue"] ELSE get(paper, "source", <<>>)

\* C9: with a non-empty venue in the configuration a record is kept iff the
\* filter string is a case-insensitive substring of the record's
\* venue/source field; a record carrying the text under source is kept.
C9_VenueMatchesSource ==
    (flt_ret.called /\ DOMAIN flt_filters = {"venue"} /\ flt_filters["venue"] # <<>>) =>
        flt_ret.value =
            SelectSeq(flt_papers, LAMBDA p :
                StrIn(lower(flt_filters["venue"]), lower(VenueOrSource(p))))

\* the pieces of a string between its commas
CommaPieces(s) ==
    { SubSeq(s, ab[1], ab[2]) : ab \in
        { ab \in (1..(Len(s) + 1)) \X (0..Len(s)) :
            /\ ab[1] <= ab[2] + 1
            /\ ab[1] = 1 \/ s[ab[1] - 1] = 44
            /\ ab[2] = Len(s) \/ s[ab[2] + 1] = 44
            /\ \A k \in ab[1]..ab[2] : s[k] # 44 } }

\* the record's title, lowercased, holds one of the keywords of the string
TitleHasKeyword(paper, title_keywords) ==
    \E piece \in CommaPieces(title_keywords) :
        StrIn(lower(strip(piece)), lower(get(paper, "title", <<>>)))

\* C17: under a non-empty title_keywords the string is split on commas, the
\* pieces trimmed and lowercased, and a record is kept iff one of them is a
\* substring of its lowercased title.
C17_TitleKeywordsAny ==
    (/\ flt_ret.called
     /\ "title_keywords" \in DOMAIN flt_filters
     /\ flt_filters["title_keywords"] # <<>>) =>
        /\ \A i \in 1..Len(flt_ret.value) :
               TitleHasKeyword(flt_ret.value[i], flt_filters["title_keywords"])
        /\ (DOMAIN flt_filters = {"title_keywords"} =>
               flt_ret.value =
                   SelectSeq(flt_papers, LAMBDA p :
                       TitleHasKeyword(p, flt_filters["title_keywords"])))

\* ' Bc,x' over the titles b and abc: the first holds neither bc nor x and
\* is dropped, the second holds bc and is kept
C17_Witness ==
    /\ flt_ret.called
    /\ flt_filters = [title_keywords |-> <<32, 66, 99, 44, 120>>]
    /\ Len(flt_papers) = 2
    /\ flt_papers[1].title = <<98>>
    /\ flt_papers[2].title = <<97, 98, 99>>
    /\ flt_ret.value = <<flt_papers[2]>>

\* the year of the record is an integer, and midnight of January 1 of that
\* year is not before the cutoff
YearOnOrAfter(paper, cutoff) ==
    /\ "year" \in DOMAIN paper
    /\ ~(paper.year.t = "str" /\ paper.year.s = YearSentinel)
    /\ int(paper.year).ok
    /\ \/ Jan1(int(paper.year).n) > cutoff.day
       \/ Jan1(int(paper.year).n) = cutoff.day /\ cutoff.tod = 0

\* now - timedelta(days)
DaysBefore(now, days) == [day |-> now.day - days, tod |-> now.tod]

\* C18: the recency predicate is active iff recency_days is present and not
\* zero; it keeps a record iff its year is an integer and January 1 of that
\* year is on or after now - recency_days, so a record whose year is the
\* sentinel, missing or no number is dropped.
C18_RecencyCutoff ==
    flt_ret.called =>
        IF "recency_days" \in DOMAIN flt_filters /\ flt_filters["recency_days"] # 0
        THEN /\ \A i \in 1..Len(flt_ret.value) :
                    YearOnOrAfter(flt_ret.value[i],
                        DaysBefore(flt_now, flt_filters["recency_days"]))
             /\ (DOMAIN flt_filters = {"recency_days"} =>
                    flt_ret.value =
                        SelectSeq(flt_papers, LAMBDA p :
                            YearOnOrAfter(p,
                                DaysBefore(flt_now, flt_filters["recency_days"]))))
        ELSE DOMAIN flt_filters \subseteq {"recency_days"} =>
                 flt_ret.value = flt_papers

\* 365 days back from midnight of 2027-01-01: the record of 2026 lies on
\* the cutoff and is kept, the record of 2025 is dropped
C18_Witness ==
    /\ flt_ret.called
    /\ flt_filters = [recency_days |-> 365]
    /\ flt_now = [day |-> Jan1(2027), tod |-> 0]
    /\ Len(flt_papers) = 2
    /\ get(flt_papers[1], "year", PyNone) = PyNum(2025)
    /\ get(flt_papers[2], "year", PyNone) = PyNum(2026)
    /\ flt_ret.value = <<flt_papers[2]>>

\* the five predicates of filter_papers_advanced, by the key they read
Stage(key, papers, filters, now) ==
    CASE key = "author_name" -> author_stage(papers, filters)
      [] key = "title_keywords" -> title_stage(papers, filters)
      [] key = "citation_range" -> citation_stage(papers, filters)
      [] key = "venue" -> venue_stage(papers, filters)
      [] key = "recency_days" -> recency_stage(papers, filters, now)

FilterKeys ==
    {"author_name", "title_keywords", "citation_range", "venue", "recency_days"}

\* the arrangements of the members of a set, each once
Arrangements(S) ==
    { order \in [1..Cardinality(S) -> S] :
        \A i, j \in 1..Cardinality(S) : i # j => order[i] # order[j] }

\* the 120 orders of the five predicates
StageOrders == Arrangements(FilterKeys)

\* the predicates applied one after the other in the given order
RECURSIVE InOrder(_, _, _, _)
InOrder(order, papers, filters, now) ==
    IF order = <<>> THEN papers
    ELSE InOrder(Tail(order), Stage(Head(order), papers, filters, now),
                 filters, now)

\* filter_papers_advanced called once for every key of the configuration,
\* the keys taken in the given order, each time with that key alone
RECURSIVE OneKeyAtATime(_, _, _, _)
OneKeyAtATime(order, papers, filters, now) ==
    IF order = <<>> THEN papers
    ELSE OneKeyAtATime(Tail(order),
             IF Head(order) \in DOMAIN filters
             THEN filter_papers_advanced(papers,
                      [k \in {Head(order)} |-> filters[k]], now)
             ELSE papers,
             filters, now)

\* C19: the predicates applied in any order give the result of
\* filter_papers_advanced; so does filtering with the single-field
\* configurations one after the other, in any order; filtering the result
\* again with the same configuration changes nothing.
C19_FiltersCommute ==
    flt_ret.called =>
        /\ \A order \in StageOrders :
               /\ InOrder(order, flt_papers, flt_filters, flt_now)
                      = flt_ret.value
               /\ OneKeyAtATime(order, flt_papers, flt_filters, flt_now)
                      = flt_ret.value
        /\ filter_papers_advanced(flt_ret.value, flt_filters, flt_now)
               = flt_ret.value

\* all five predicates active over two records, of which the title
\* predicate drops the first and all five keep the second
C19_Witness ==
    /\ flt_ret.called
    /\ DOMAIN flt_filters = FilterKeys
    /\ flt_filters["author_name"] # <<>>
    /\ flt_filters["venue"] # <<>>
    /\ flt_filters["recency_days"] # 0
    /\ Len(flt_papers) = 2
    /\ Len(flt_ret.value) = 1
    /\ flt_ret.value[1] = flt_papers[2]
    /\ title_stage(flt_papers, flt_filters) # flt_papers

(***************************************************************************)
(* Properties of smart_autocomplete.                                       *)
(***************************************************************************)
\* C10: smart_autocomplete returns at most 8 strings, none of them twice.
C10_AutocompleteCapDedup ==
    ac_ret.called =>
        /\ Len(ac_ret.value) <= 8
        /\ \A i, j \in 1..Len(ac_ret.value) :
               i # j => ac_ret.value[i] # ac_ret.value[j]

\* a call that fills the list: three titles by prefix, three other titles
\* by the fuzzy matcher, two queries of the history, eight strings in all
C10_Witness ==
    /\ ac_ret.called
    /\ ac_prefix = <<97, 98>>
    /\ ac_titles = SixTitles
    /\ Len(ac_history) = 2
    /\ Len(ac_ret.value) = 8

\* the elements of seq at the indices I, in index order
Pick(seq, I) ==
    [k \in 1..Cardinality(I) |->
        seq[CHOOSE i \in I : Cardinality({ j \in I : j <= i }) = k]]

\* the n smallest members of the index set I
Smallest(I, n) == { i \in I : Cardinality({ j \in I : j < i }) < n }

\* the three candidate sources of a call, concatenated
Candidates(prefix, paper_titles, search_history) ==
    Pick(paper_titles,
         Smallest({ i \in 1..Len(paper_titles) :
                      startswith(lower(paper_titles[i]), lower(prefix)) }, 3))
    \o get_close_matches(prefix, paper_titles, 3)
    \o Pick(search_history,
            Smallest({ i \in 1..Len(search_history) :
                         StrIn(lower(prefix), lower(search_history[i])) }, 2))

\* the indices at which a string occurs for the first time
FirstOccurrences(seq) ==
    { i \in 1..Len(seq) : \A j \in 1..(i - 1) : seq[j] # seq[i] }

\* C11: the result is the up-to-3 prefix matches in pool order, then the
\* up-to-3 fuzzy matches, then the up-to-2 history matches in history
\* order, with every later occurrence of a string removed and the order of
\* the survivors kept.
C11_AutocompleteMergeOrder ==
    ac_ret.called =>
        LET c == Candidates(ac_prefix, ac_titles, ac_history)
        IN ac_ret.value = Pick(c, FirstOccurrences(c))

\* the prefix ab over the titles Ab abc b and the history "x ab", abc: the
\* candidates are Ab abc, abc b, "x ab" abc, and the two later abc are
\* dropped
C11_Witness ==
    /\ ac_ret.called
    /\ ac_prefix = <<97, 98>>
    /\ ac_titles = << <<65, 98>>, <<97, 98, 99>>, <<98>> >>
    /\ ac_history = << <<120, 32, 97, 98>>, <<97, 98, 99>> >>
    /\ Len(Candidates(ac_prefix, ac_titles, ac_history)) = 6
    /\ ac_ret.value = << <<65, 98>>, <<97, 98, 99>>, <<98>>,
                         <<120, 32, 97, 98>> >>

(***************************************************************************)
(* Properties of analyze_query.                                            *)
(***************************************************************************)
\* C12: the intent is survey if the keywords hold any of survey, review,
\* overview; otherwise methodology if they hold any of method, algorithm,
\* technique; otherwise dataset if they hold any of dataset, data,
\* benchmark; otherwise general -- whatever the order of the keywords.
C12_IntentPriority ==
    aq_ret.called =>
        LET kw == SetOf(aq_ret.value.keywords)
        IN aq_ret.value.intent =
               IF kw \cap SurveyWords # {} THEN "survey"
               ELSE IF kw \cap MethodologyWords # {} THEN "methodology"
               ELSE IF kw \cap DatasetWords # {} THEN "dataset"
               ELSE "general"

\* the query "data survey": the dataset trigger comes first, the intent is
\* survey
C12_Witness ==
    /\ aq_ret.called
    /\ aq_ret.value.keywords = << <<100, 97, 116, 97>>, <<115, 117, 114, 118, 101, 121>> >>
    /\ aq_ret.value.intent = "survey"

\* the positions of the query that lie outside its quoted phrases and
\* outside its field:value pairs: those neither substitution removes
OutsidePositions(query) ==
    LET clean_quoted == re_sub(quoted_pattern(query, 1), query)
        unquoted == re_sub(quoted_pattern(query, 1),
                           [k \in 1..Len(query) |-> k])
    IN SetOf(re_sub(field_pattern(clean_quoted, 1), unquoted))

\* the members of a set of numbers, ascending
Ascending(I) ==
    [k \in 1..Cardinality(I) |->
        CHOOSE i \in I : Cardinality({ j \in I : j <= i }) = k]

\* the whole words and, or, not of the query, in any letter case, that lie
\* outside the quoted phrases and the field:value pairs, in order
OperatorOccurrences(query) ==
    LET starts == { a \in 1..Len(query) :
                      /\ IsWordChar(query[a])
                      /\ WordBoundary(query, a)
                      /\ \A j \in a..WordRunEnd(query, a) :
                             j \in OutsidePositions(query)
                      /\ lower(SubSeq(query, a, WordRunEnd(query, a)))
                             \in StopOperators }
    IN [k \in 1..Cardinality(starts) |->
           SubSeq(query, Ascending(starts)[k],
                  WordRunEnd(query, Ascending(starts)[k]))]

\* C13: boolean_operators lists, in order and in the query's letter case,
\* every whole-word AND, OR, NOT of the query outside quoted phrases and
\* field:value pairs; keywords holds lowercase tokens only and none of and,
\* or, not; the example query gives [AND] and a keyword survey.
C13_OperatorsAndKeywords ==
    aq_ret.called =>
        /\ aq_ret.value.boolean_operators = OperatorOccurrences(aq_query)
        /\ \A k \in 1..Len(aq_ret.value.keywords) :
               /\ aq_ret.value.keywords[k] = lower(aq_ret.value.keywords[k])
               /\ aq_ret.value.keywords[k] \notin StopOperators
        /\ aq_query = ExampleQuery =>
               /\ aq_ret.value.boolean_operators = << <<65, 78, 68>> >>
               /\ <<115, 117, 114, 118, 101, 121>> \in SetOf(aq_ret.value.keywords)

\* the string holds no word character
NoWordChars(query) == \A k \in 1..Len(query) : ~IsWordChar(query[k])

AnalysisFields ==
    {"keywords", "quoted_phrases", "boolean_operators", "field_queries",
     "intent"}

\* C14 as stated: every call returns the five fields, and for a string
\* without word characters the four collections are empty and the intent
\* is general.
C14_EmptyAnalysis ==
    aq_ret.called =>
        /\ DOMAIN aq_ret.value = AnalysisFields
        /\ NoWordChars(aq_query) =>
               /\ aq_ret.value.keywords = <<>>
               /\ aq_ret.value.quoted_phrases = <<>>
               /\ aq_ret.value.boolean_operators = <<>>
               /\ DOMAIN aq_ret.value.field_queries = {}
               /\ aq_ret.value.intent = "general"

\* C14, amended: every call returns the five fields, and for a string
\* without word characters keywords, boolean_operators and field_queries
\* are empty and the intent is general, while quoted_phrases holds one
\* entry for every pair of double quotes: it is empty only if the string
\* holds fewer than two of them.
C14_EmptyAnalysisButQuotes ==
    aq_ret.called =>
        /\ DOMAIN aq_ret.value = AnalysisFields
        /\ NoWordChars(aq_query) =>
               /\ aq_ret.value.keywords = <<>>
               /\ Len(aq_ret.value.quoted_phrases) =
                      Cardinality({ k \in 1..Len(aq_query) :
                                      aq_query[k] = 34 }) \div 2
               /\ \A k \in 1..Len(aq_ret.value.quoted_phrases) :
                      NoWordChars(aq_ret.value.quoted_phrases[k])
               /\ aq_ret.value.boolean_operators = <<>>
               /\ DOMAIN aq_ret.value.field_queries = {}
               /\ aq_ret.value.intent = "general"

\* the query ":" in double quotes: no word character, one quoted phrase
C14_Witness ==
    /\ aq_ret.called
    /\ aq_query = <<34, 58, 34>>
    /\ aq_ret.value.quoted_phrases = << <<58>> >>
    /\ aq_ret.value.keywords = <<>>

\* C15: two analyze_query calls with the same string return the same
\* analysis, whatever the engine recorded or computed in between, and an
\* analyze_query call leaves search_history, popular_queries and
\* trending_topics as they were.
C15_AnalyzeQueryPure ==
    /\ [](\A i, j \in 1..Len(aq_returned) :
              aq_returned[i].query = aq_returned[j].query
                  => aq_returned[i].analysis = aq_returned[j].analysis)
    /\ [][Len(aq_returned') > Len(aq_returned) =>
              UNCHANGED <<self_search_history, self_popular_queries,
                          self_trending_topics>>]_vars

\* the query data analysed twice, a search recorded and the filter and the
\* autocomplete called between the two calls
C15_Witness ==
    /\ Len(aq_returned) = 2
    /\ aq_returned[1].query = <<100, 97, 116, 97>>
    /\ aq_returned[2].query = <<100, 97, 116, 97>>
    /\ aq_returned[1].analysis.intent = "dataset"
    /\ aq_returned[1].searches < aq_returned[2].searches
    /\ flt_ret.called
    /\ ac_ret.called

(***************************************************************************)
(* Properties of generate_search_insights.                                 *)
(***************************************************************************)
\* C16: for every record sequence, the empty one included, the insights
\* hold all four components -- peak year, prolific authors, citation
\* summary, topic diversity -- and the diversity score is 0 when no title
\* has a word of more than 4 characters.
C16_AllFourInsights ==
    gi_ret.called =>
        /\ DOMAIN gi_ret.value =
               {"peak_year", "prolific_authors", "impact_analysis", "diversity"}
        /\ title_words(gi_papers) = <<>> =>
               gi_ret.value.diversity =
                   << 84, 111, 112, 105, 99, 32, 100, 105, 118, 101, 114, 115, 105, 116,
                   121, 32, 115, 99, 111, 114, 101, 58, 32, 48, 46, 48, 48 >>

(***************************************************************************)
(* Properties of suggest_related_queries.                                  *)
(***************************************************************************)
\* how often w stands as a whole word in the lowercased titles
RECURSIVE TitleFrequency(_, _)
TitleFrequency(w, papers) ==
    IF papers = <<>> THEN 0
    ELSE LET text == lower(Head(papers).title)
         IN Cardinality({ a \in 1..Len(text) :
                /\ IsWordChar(text[a])
                /\ WordBoundary(text, a)
                /\ SubSeq(text, a, WordRunEnd(text, a)) = w })
            + TitleFrequency(w, Tail(papers))

\* the words of the lowercased query: its runs of characters between white
\* space
QueryWordSet(query) ==
    { SubSeq(lower(query), ab[1], ab[2]) : ab \in
        { ab \in (1..Len(query)) \X (1..Len(query)) :
            /\ ab[1] <= ab[2]
            /\ \A k \in ab[1]..ab[2] : ~IsSpace(query[k])
            /\ ab[1] = 1 \/ IsSpace(query[ab[1] - 1])
            /\ ab[2] = Len(query) \/ IsSpace(query[ab[2] + 1]) } }

\* the word a suggestion adds to the query
AddedWord(suggestion, query) ==
    SubSeq(suggestion, Len(query) + 2, Len(suggestion))

\* C20: at most 5 strings are returned, each the query, a space and a word
\* w, where w is lowercase, longer than 3 characters, not one of paper,
\* study, research, analysis, stands more than once in the titles and is no
\* word of the lowercased query; the strings come by non-increasing
\* frequency of w; no records give no strings.
C20_SuggestionsWellFormed ==
    (sq_ret.called /\ ~sq_ret.raised) =>
        /\ Len(sq_ret.value) <= 5
        /\ \A i \in 1..Len(sq_ret.value) :
               LET w == AddedWord(sq_ret.value[i], sq_query)
               IN /\ sq_ret.value[i] = sq_query \o <<32>> \o w
                  /\ w = lower(w)
                  /\ Len(w) > 3
                  /\ w \notin StopWords
                  /\ TitleFrequency(w, sq_papers) > 1
                  /\ w \notin QueryWordSet(sq_query)
        /\ \A i \in 1..(Len(sq_ret.value) - 1) :
               TitleFrequency(AddedWord(sq_ret.value[i], sq_query), sq_papers)
                   >= TitleFrequency(AddedWord(sq_ret.value[i + 1], sq_query),
                                     sq_papers)
        /\ sq_papers = <<>> => sq_ret.value = <<>>

\* the query x over the titles "deep nets deep" and "Deep Learning nets":
\* deep stands three times, nets twice, learning once
C20_Witness ==
    /\ sq_ret.called
    /\ ~sq_ret.raised
    /\ sq_query = <<120>>
    /\ Len(sq_papers) = 2
    /\ TitleFrequency(<<100, 101, 101, 112>>, sq_papers) = 3
    /\ TitleFrequency(<<108, 101, 97, 114, 110, 105, 110, 103>>, sq_papers) = 1
    /\ sq_ret.value = << <<120, 32, 100, 101, 101, 112>>,
                         <<120, 32, 110, 101, 116, 115>> >>

\* the whole words of the lowercased titles
RECURSIVE TitleWordSet(_)
TitleWordSet(papers) ==
    IF papers = <<>> THEN {}
    ELSE LET text == lower(Head(papers).title)
         IN { SubSeq(text, a, WordRunEnd(text, a)) :
                a \in { a \in 1..Len(text) :
                          IsWordChar(text[a]) /\ WordBoundary(text, a) } }
            \cup TitleWordSet(Tail(papers))

\* the words a suggestion may add: counted words (longer than 3 characters,
\* not in the stoplist) that stand more than once in the titles and are no
\* word of the query
EligibleWords(query, papers) ==
    { w \in TitleWordSet(papers) :
        /\ Len(w) > 3
        /\ w \notin StopWords
        /\ TitleFrequency(w, papers) > 1
        /\ w \notin QueryWordSet(query) }

\* C21: with k eligible words the result has min(5, k) suggestions, built
\* from the most frequent eligible words, however many more frequent words
\* of the query the titles hold.
C21_SuggestionsFromEligible ==
    (sq_ret.called /\ ~sq_ret.raised) =>
        LET eligible == EligibleWords(sq_query, sq_papers)
            added == { AddedWord(sq_ret.value[i], sq_query) :
                         i \in 1..Len(sq_ret.value) }
        IN /\ Len(sq_ret.value) = Min(5, Cardinality(eligible))
           /\ added \subseteq eligible
           /\ \A w \in added, e \in eligible \ added :
                  TitleFrequency(e, sq_papers) <= TitleFrequency(w, sq_papers)

\* the year a record counts for: its 'year' converted by int(), where the
\* field is there, is not the sentinel and converts
HasParseableYear(paper) ==
    LET year == get(paper, "year", PyNone)
    IN ~(year.t = "str" /\ year.s = YearSentinel) /\ int(year).ok

ParsedYear(paper) == int(get(paper, "year", PyNone)).n

YearRecords(papers, y) ==
    Cardinality({ i \in 1..Len(papers) :
                    HasParseableYear(papers[i]) /\ ParsedYear(papers[i]) = y })

PeakText(y, n) ==
    << 80, 101, 97, 107, 32, 112, 117, 98, 108, 105, 99, 97, 116, 105,
       111, 110, 32, 121, 101, 97, 114, 58, 32 >>
        \o str(y) \o <<32, 40>> \o str(n) \o <<32, 112, 97, 112, 101, 114, 115, 41>>

\* C22: the peak year reported is a year of the largest record count among
\* the years that convert; of several such years it is the one met first in
\* record order; records with the sentinel or a year that does not convert
\* are not counted, and without any counted year no peak year is reported.
C22_PeakYearFirstMaximum ==
    gi_ret.called =>
        LET counted == { i \in 1..Len(gi_papers) : HasParseableYear(gi_papers[i]) }
            largest == { i \in counted :
                           \A j \in counted :
                               YearRecords(gi_papers, ParsedYear(gi_papers[j]))
                                   <= YearRecords(gi_papers, ParsedYear(gi_papers[i])) }
        IN IF counted = {}
           THEN "peak_year" \notin DOMAIN gi_ret.value
           ELSE /\ "peak_year" \in DOMAIN gi_ret.value
                /\ \E i \in largest :
                      /\ \A j \in largest : i <= j
                      /\ gi_ret.value.peak_year =
                             PeakText(ParsedYear(gi_papers[i]),
                                      YearRecords(gi_papers, ParsedYear(gi_papers[i])))

\* a call on 2026, the sentinel, 2025: the two years tie and 2026, met
\* first, is reported with one paper
C22_Witness ==
    /\ gi_ret.called
    /\ Len(gi_papers) = 3
    /\ ~HasParseableYear(gi_papers[2])
    /\ HasParseableYear(gi_papers[1]) /\ HasParseableYear(gi_papers[3])
    /\ ParsedYear(gi_papers[1]) = 2026 /\ ParsedYear(gi_papers[3]) = 2025
    /\ gi_ret.value.peak_year = PeakText(2026, 1)

\* every node's stored height is 1 + the larger true height of its subtrees
RECURSIVE HeightsCorrect(_)
HeightsCorrect(node) ==
    \/ node = None
    \/ /\ node[2] = 1 + Max(TrueHeight(node[3]), TrueHeight(node[4]))
       /\ HeightsCorrect(node[3])
       /\ HeightsCorrect(node[4])

\* C23: after any sequence of AVLTree.insert calls every node's stored height
\* is 1 + the larger true height of its two subtrees, an absent child
\* counting 0.
C23_StoredHeights == HeightsCorrect(avl_root)

\* a tree of true height 3 whose root has two children, a grandchild on the
\* inner side of each: rotations and plain inserts have both happened
C23_Witness ==
    /\ avl_root # None
    /\ avl_root[3] # None /\ avl_root[4] # None
    /\ avl_root[3][4] # None /\ avl_root[4][3] # None
    /\ TrueHeight(avl_root) = 3
    /\ avl_root[2] = 3

\* the titles of a tree
RECURSIVE TreeTitles(_)
TreeTitles(node) ==
    IF node = None THEN {}
    ELSE {node[1]} \cup TreeTitles(node[3]) \cup TreeTitles(node[4])

\* left, node, right
RECURSIVE InOrderTitles(_)
InOrderTitles(node) ==
    IF node = None THEN <<>>
    ELSE InOrderTitles(node[3]) \o <<node[1]>> \o InOrderTitles(node[4])

RECURSIVE WeakBST(_)
WeakBST(node) ==
    \/ node = None
    \/ /\ \A t \in TreeTitles(node[3]) : ~StrGt(t, node[1])
       /\ \A t \in TreeTitles(node[4]) : ~StrLt(t, node[1])
       /\ WeakBST(node[3])
       /\ WeakBST(node[4])

\* C28: after any sequence of AVLTree.insert calls every title of a node's
\* left subtree is <= the node's title, every title of its right subtree is
\* >= it, and the in-order traversal is non-decreasing.
C28_WeakSearchOrder ==
    /\ WeakBST(avl_root)
    /\ LET titles == InOrderTitles(avl_root)
       IN \A i \in 1..(Len(titles) - 1) : ~StrGt(titles[i], titles[i + 1])

\* a rotation has carried a title equal to the root's into the left subtree
C28_Witness ==
    /\ avl_root # None
    /\ avl_root[3] # None
    /\ avl_root[3][1] = avl_root[1]
    /\ avl_root[4] # None

\* the nodes met going down from a node by the child links
RECURSIVE Reachable(_, _)
Reachable(t, node) ==
    IF node = NIL THEN {}
    ELSE {node} \cup Reachable(t, t.left[node]) \cup Reachable(t, t.right[node])

NILIntact(t) ==
    /\ t.color[NIL] = "black"
    /\ t.author[NIL] = <<>>
    /\ t.left[NIL] = NoneRef
    /\ t.right[NIL] = NoneRef
    /\ t.parent[NIL] = NoneRef

\* the trees at the head of each pass of the loop of fix_insertion, and the
\* tree the loop ends with
RECURSIVE LoopTrees(_, _)
LoopTrees(t, new_node) ==
    IF loop_condition(t, new_node)
    THEN LET pass == fix_pass(t, new_node)
         IN <<t>> \o LoopTrees(pass.t, pass.new_node)
    ELSE <<t>>

\* the trees the next insert of an author goes through
NextInsertTrees(author) ==
    LET new_node == Cardinality(DOMAIN rb.color)
    IN LoopTrees(attach(with_new_node(rb, author), new_node), new_node)

\* C25: no insert changes the NIL sentinel: it stays black, its parent and
\* child links are never assigned (not between the passes of fix_insertion
\* either), it is not the root of a tree that holds a node, it is no node's
\* parent, and a rotate_left(x) with x.right NIL or rotate_right(x) with
\* x.left NIL leaves every link and the root as they are.
C25_SentinelUntouched ==
    /\ NILIntact(rb)
    /\ \A author \in AuthorPool :
           \A i \in 1..Len(NextInsertTrees(author)) :
               NILIntact(NextInsertTrees(author)[i])
    /\ RBNodes(rb) # {} => rb.root # NIL
    /\ \A n \in RBNodes(rb) : rb.parent[n] # NIL
    /\ \A x \in RBNodes(rb) :
           /\ rb.right[x] = NIL => rb_rotate_left(rb, x) = rb
           /\ rb.left[x] = NIL => rb_rotate_right(rb, x) = rb

\* a tree of three nodes or more whose root is not the node inserted first
\* (a rotation has moved it), with leaves whose children are the sentinel
C25_Witness ==
    /\ Cardinality(RBNodes(rb)) >= 3
    /\ rb.root # 1
    /\ \E x \in RBNodes(rb) : rb.left[x] = NIL /\ rb.right[x] = NIL
    /\ \E author \in AuthorPool : Len(NextInsertTrees(author)) >= 3

\* at each pass of the loop of fix_insertion the grandparent is a node
RECURSIVE GrandparentFound(_, _)
GrandparentFound(t, new_node) ==
    IF loop_condition(t, new_node)
    THEN /\ t.parent[new_node] \in RBNodes(t)
         /\ t.parent[t.parent[new_node]] \in RBNodes(t)
         /\ LET pass == fix_pass(t, new_node)
            IN GrandparentFound(pass.t, pass.new_node)
    ELSE TRUE

\* C30: after every completed RBTree.insert the root's parent is None, every
\* node is the parent of each of its children that is not the sentinel,
\* every node is reachable from the root, and the upward walk of the next
\* fix_insertion finds a node as grandparent whenever the parent is red.
C30_ParentLinks ==
    /\ rb.parent[rb.root] = NoneRef
    /\ \A n \in RBNodes(rb) :
           /\ rb.left[n] # NIL => rb.parent[rb.left[n]] = n
           /\ rb.right[n] # NIL => rb.parent[rb.right[n]] = n
    /\ Reachable(rb, rb.root) = RBNodes(rb)
    /\ \A author \in AuthorPool :
           LET new_node == Cardinality(DOMAIN rb.color)
           IN GrandparentFound(attach(with_new_node(rb, author), new_node),
                               new_node)

\* a tree that rotations have reshaped, and an author whose insert walks up
\* through a red parent
C30_Witness ==
    /\ rb_call.op = "insert"
    /\ Cardinality(RBNodes(rb)) >= 5
    /\ rb.root # 1
    /\ \E n \in RBNodes(rb) : rb.left[n] # NIL /\ rb.right[n] # NIL
    /\ \E author \in AuthorPool :
           LET new_node == Cardinality(DOMAIN rb.color)
           IN loop_condition(attach(with_new_node(rb, author), new_node), new_node)

\* the calls of record_search so far: popular_queries counts every one
SearchCalls == BagTotal(self_popular_queries, DOMAIN self_popular_queries)

\* C26: after n record_search calls search_history has min(n, 1000) records,
\* the most recent ones in call order -- each call puts its record last and,
\* at the limit, drops the oldest -- and popular_queries counts every call
\* of a query, the calls whose records were dropped included.
C26_HistoryCapAndCounts ==
    /\ [](Len(self_search_history) = Min(SearchCalls, HistoryLimit))
    /\ [][<<self_search_history, self_popular_queries>>'
              # <<self_search_history, self_popular_queries>> =>
          /\ \E result_count \in 0..1, now \in NowPool :
                 self_search_history' =
                     (IF Len(self_search_history) < HistoryLimit
                      THEN self_search_history ELSE Tail(self_search_history))
                         \o << [query |-> aq_query, timestamp |-> now,
                                result_count |-> result_count] >>
          /\ DOMAIN self_popular_queries' = DOMAIN self_popular_queries \cup {aq_query}
          /\ \A q \in DOMAIN self_popular_queries' :
                 self_popular_queries'[q] =
                     (IF q \in DOMAIN self_popular_queries
                      THEN self_popular_queries[q] ELSE 0)
                         + (IF q = aq_query THEN 1 ELSE 0)]_vars

\* 1001 calls: the history is full, the record of the first call is gone,
\* the second is now the oldest and the call just made is the newest
C26_Witness ==
    /\ SearchCalls = HistoryLimit + 1
    /\ Len(self_search_history) = HistoryLimit
    /\ self_search_history[1] = EarlierRecord(2)
    /\ self_search_history[HistoryLimit].timestamp \in NowPool

\* C27: filter_papers_advanced, smart_autocomplete, suggest_related_queries
\* and generate_search_insights leave their inputs as they were -- the
\* record sequences, the title pool and the history keep their length, order
\* and elements and every record its field values -- and leave the engine's
\* search_history and popular_queries as they were.
C27_InputsUntouched ==
    [][(flt_ret' # flt_ret \/ ac_ret' # ac_ret \/ sq_ret' # sq_ret \/ gi_ret' # gi_ret)
          => /\ flt_papers' = flt_papers /\ flt_filters' = flt_filters
             /\ ac_prefix' = ac_prefix /\ ac_titles' = ac_titles
             /\ ac_history' = ac_history
             /\ sq_query' = sq_query /\ sq_papers' = sq_papers
             /\ gi_papers' = gi_papers
             /\ self_search_history' = self_search_history
             /\ self_popular_queries' = self_popular_queries]_vars

\* all four have been called, the filter on a list it returned nothing of,
\* on an engine that holds two records
C27_Witness ==
    /\ flt_ret.called /\ ac_ret.called /\ sq_ret.called /\ gi_ret.called
    /\ flt_papers # <<>> /\ flt_ret.value = <<>>
    /\ Len(sq_ret.value) > 0
    /\ Len(self_search_history) = 2
    /\ self_popular_queries[<<120>>] = 1

\* the query with every character inside a quoted phrase, and every
\* character of a field:value pair but the colon after the name, turned
\* into the letter z
Neutralised(query) ==
    LET quotes == quoted_pattern(query, 1)
        clean_quoted == re_sub(quotes, query)
        unquoted == re_sub(quotes, [k \in 1..Len(query) |-> k])
        fields == field_pattern(clean_quoted, 1)
        InQuotes(k) == \E m \in 1..Len(quotes) : quotes[m][1] < k /\ k < quotes[m][2]
        InField(k) == \E m \in 1..Len(fields) :
                          \E j \in fields[m][1]..fields[m][3] :
                              j # fields[m][2] /\ unquoted[j] = k
    IN [k \in 1..Len(query) |->
           IF InQuotes(k) \/ InField(k) THEN 122 ELSE query[k]]

\* C29: the intent depends on the keywords only: what stands inside a quoted
\* phrase or inside a field:value pair has no influence on it -- the intent
\* is the one of the query with those characters replaced -- and the quoted
\* phrase "survey" alone and title:survey alone are general.
C29_IntentIgnoresQuotedAndFields ==
    aq_ret.called =>
        /\ aq_ret.value.intent = analyze_query(Neutralised(aq_query)).intent
        /\ aq_query \in { <<34, 115, 117, 114, 118, 101, 121, 34>>, TitleSurveyQuery }
               => aq_ret.value.intent = "general"

\* title:survey analysed: a field query, no keyword, general
C29_Witness ==
    /\ aq_ret.called
    /\ aq_query = TitleSurveyQuery
    /\ aq_ret.value.keywords = <<>>
    /\ DOMAIN aq_ret.value.field_queries = { <<116, 105, 116, 108, 101>> }
    /\ aq_ret.value.intent = "general"

(***************************************************************************)
(* Specifications: one per component, the other components not in use.     *)
(***************************************************************************)
\* no call made yet on the trees
NoAVLCall == [op |-> "none", prefix |-> <<>>, results |-> <<>>]

NoRBCall == [op |-> "none", ret |-> <<>>]

NoTime == [day |-> 0, tod |-> 0]

\* the trees as fetch_research_papers creates them, the engine not in use
InitAVL ==
    /\ avl_root = None
    /\ avl_titles = [t \in TitlePool |-> 0]
    /\ avl_call = NoAVLCall
    /\ rb = RBTree
    /\ rb_call = NoRBCall
    /\ flt_papers = <<>>
    /\ flt_filters = EmptyDict
    /\ flt_now = NoTime
    /\ flt_ret = NotCalled
    /\ ac_prefix = <<>>
    /\ ac_titles = <<>>
    /\ ac_history = <<>>
    /\ ac_ret = NotCalled
    /\ aq_query = <<>>
    /\ aq_ret = NotCalled
    /\ aq_returned = <<>>
    /\ self_search_history = <<>>
    /\ self_popular_queries = EmptyDict
    /\ self_trending_topics = <<>>
    /\ gi_papers = <<>>
    /\ gi_ret = NotCalled
    /\ sq_query = <<>>
    /\ sq_papers = <<>>
    /\ sq_ret = NotCalled

AVLNext == AVLInsert \/ AVLAutocomplete

SpecAVL == InitAVL /\ [][AVLNext]_vars

InitRB ==
    /\ avl_root = None
    /\ avl_titles = [t \in TitlePool |-> 0]
    /\ avl_call = NoAVLCall
    /\ rb = RBTree
    /\ rb_call = NoRBCall
    /\ flt_papers = <<>>
    /\ flt_filters = EmptyDict
    /\ flt_now = NoTime
    /\ flt_ret = NotCalled
    /\ ac_prefix = <<>>
    /\ ac_titles = <<>>
    /\ ac_history = <<>>
    /\ ac_ret = NotCalled
    /\ aq_query = <<>>
    /\ aq_ret = NotCalled
    /\ aq_returned = <<>>
    /\ self_search_history = <<>>
    /\ self_popular_queries = EmptyDict
    /\ self_trending_topics = <<>>
    /\ gi_papers = <<>>
    /\ gi_ret = NotCalled
    /\ sq_query = <<>>
    /\ sq_papers = <<>>
    /\ sq_ret = NotCalled

RBNext == RBInsert \/ RBListUniqueAuthors

SpecRB == InitRB /\ [][RBNext]_vars

\* the arguments of one filter_papers_advanced call, before the call
InitFilter ==
    /\ avl_root = None
    /\ avl_titles = [t \in TitlePool |-> 0]
    /\ avl_call = NoAVLCall
    /\ rb = RBTree
    /\ rb_call = NoRBCall
    /\ flt_papers \in SeqsUpTo(PaperPool, MaxPapers)
    /\ flt_filters \in FilterPool
    /\ flt_now \in NowPool
    /\ flt_ret = NotCalled
    /\ ac_prefix = <<>>
    /\ ac_titles = <<>>
    /\ ac_history = <<>>
    /\ ac_ret = NotCalled
    /\ aq_query = <<>>
    /\ aq_ret = NotCalled
    /\ aq_returned = <<>>
    /\ self_search_history = <<>>
    /\ self_popular_queries = EmptyDict
    /\ self_trending_topics = <<>>
    /\ gi_papers = <<>>
    /\ gi_ret = NotCalled
    /\ sq_query = <<>>
    /\ sq_papers = <<>>
    /\ sq_ret = NotCalled

FltNext == FilterPapersAdvanced

SpecFilter == InitFilter /\ [][FltNext]_vars

\* the arguments of one smart_autocomplete call, before the call
InitAuto ==
    /\ avl_root = None
    /\ avl_titles = [t \in TitlePool |-> 0]
    /\ avl_call = NoAVLCall
    /\ rb = RBTree
    /\ rb_call = NoRBCall
    /\ flt_papers = <<>>
    /\ flt_filters = EmptyDict
    /\ flt_now = NoTime
    /\ flt_ret = NotCalled
    /\ ac_prefix \in AcPrefixPool
    /\ ac_titles \in SeqsUpTo(AcTitlePool, MaxAcTitles) \cup { SixTitles }
    /\ ac_history \in SeqsUpTo(AcHistoryPool, MaxAcHistory) \cup { ThreeQueries }
    /\ ac_ret = NotCalled
    /\ aq_query = <<>>
    /\ aq_ret = NotCalled
    /\ aq_returned = <<>>
    /\ self_search_history = <<>>
    /\ self_popular_queries = EmptyDict
    /\ self_trending_topics = <<>>
    /\ gi_papers = <<>>
    /\ gi_ret = NotCalled
    /\ sq_query = <<>>
    /\ sq_papers = <<>>
    /\ sq_ret = NotCalled

AcNext == SmartAutocomplete

SpecAuto == InitAuto /\ [][AcNext]_vars

InitQuery ==
    /\ avl_root = None
    /\ avl_titles = [t \in TitlePool |-> 0]
    /\ avl_call = NoAVLCall
    /\ rb = RBTree
    /\ rb_call = NoRBCall
    /\ flt_papers = <<>>
    /\ flt_filters = EmptyDict
    /\ flt_now = NoTime
    /\ flt_ret = NotCalled
    /\ ac_prefix = <<>>
    /\ ac_titles = <<>>
    /\ ac_history = <<>>
    /\ ac_ret = NotCalled
    /\ aq_query \in QueryPool
    /\ aq_ret = NotCalled
    /\ aq_returned = <<>>
    /\ self_search_history = <<>>
    /\ self_popular_queries = EmptyDict
    /\ self_trending_topics = <<>>
    /\ gi_papers = <<>>
    /\ gi_ret = NotCalled
    /\ sq_query = <<>>
    /\ sq_papers = <<>>
    /\ sq_ret = NotCalled

QryNext == AnalyzeQuery

SpecQuery == InitQuery /\ [][QryNext]_vars

\* one engine serving requests, nothing recorded yet; a record list to
\* filter by the author ann and a title cache to complete ab from
InitEngine ==
    /\ avl_root = None
    /\ avl_titles = [t \in TitlePool |-> 0]
    /\ avl_call = NoAVLCall
    /\ rb = RBTree
    /\ rb_call = NoRBCall
    /\ flt_papers = << [title |-> <<98>>] >>
    /\ flt_filters = [author_name |-> <<97, 110, 110>>]
    /\ flt_now = [day |-> Jan1(2027), tod |-> 0]
    /\ flt_ret = NotCalled
    /\ ac_prefix = <<97, 98>>
    /\ ac_titles = SixTitles
    /\ ac_history = ThreeQueries
    /\ ac_ret = NotCalled
    /\ aq_query \in RequestPool
    /\ aq_ret = NotCalled
    /\ aq_returned = <<>>
    /\ self_search_history = <<>>
    /\ self_popular_queries = EmptyDict
    /\ self_trending_topics = <<>>
    /\ gi_papers = <<>>
    /\ gi_ret = NotCalled
    /\ sq_query = <<>>
    /\ sq_papers = <<>>
    /\ sq_ret = NotCalled

EngNext ==
    \/ NewQuery
    \/ AnalyzeQuery
    \/ RecordSearch
    \/ FilterPapersAdvanced
    \/ SmartAutocomplete

SpecEngine == InitEngine /\ [][EngNext]_vars

InitHistory ==
    /\ avl_root = None
    /\ avl_titles = [t \in TitlePool |-> 0]
    /\ avl_call = NoAVLCall
    /\ rb = RBTree
    /\ rb_call = NoRBCall
    /\ flt_papers = <<>>
    /\ flt_filters = EmptyDict
    /\ flt_now = NoTime
    /\ flt_ret = NotCalled
    /\ ac_prefix = <<>>
    /\ ac_titles = <<>>
    /\ ac_history = <<>>
    /\ ac_ret = NotCalled
    /\ aq_query \in RequestPool
    /\ aq_ret = NotCalled
    /\ aq_returned = <<>>
    /\ \E n \in EarlierCalls :
           /\ self_search_history = EarlierHistory(n)
           /\ self_popular_queries = EarlierCounts(n)
    /\ self_trending_topics = <<>>
    /\ gi_papers = <<>>
    /\ gi_ret = NotCalled
    /\ sq_query = <<>>
    /\ sq_papers = <<>>
    /\ sq_ret = NotCalled

HistNext ==
    \/ NewQuery
    \/ AnalyzeQuery
    \/ RecordSearch

SpecHistory == InitHistory /\ [][HistNext]_vars

InitFrame ==
    /\ avl_root = None
    /\ avl_titles = [t \in TitlePool |-> 0]
    /\ avl_call = NoAVLCall
    /\ rb = RBTree
    /\ rb_call = NoRBCall
    /\ flt_papers \in SeqsUpTo(PaperPool, 1)
    /\ flt_filters \in ActiveFilterPool
    /\ flt_now \in NowPool
    /\ flt_ret = NotCalled
    /\ ac_prefix = <<97, 98>>
    /\ ac_titles = SixTitles
    /\ ac_history = ThreeQueries
    /\ ac_ret = NotCalled
    /\ aq_query = <<>>
    /\ aq_ret = NotCalled
    /\ aq_returned = <<>>
    /\ self_search_history = EarlierHistory(2)
    /\ self_popular_queries = EarlierCounts(2)
    /\ self_trending_topics = <<>>
    /\ gi_papers \in YearLists
    /\ gi_ret = NotCalled
    /\ sq_query = <<100, 101, 101, 112>>
    /\ sq_papers \in { SixWordsTwice, ElevenWordsTwice }
    /\ sq_ret = NotCalled

FrameNext ==
    \/ FilterPapersAdvanced
    \/ SmartAutocomplete
    \/ SuggestRelatedQueries
    \/ GenerateSearchInsights

SpecFrame == InitFrame /\ [][FrameNext]_vars

InitInsights ==
    /\ avl_root = None
    /\ avl_titles = [t \in TitlePool |-> 0]
    /\ avl_call = NoAVLCall
    /\ rb = RBTree
    /\ rb_call = NoRBCall
    /\ flt_papers = <<>>
    /\ flt_filters = EmptyDict
    /\ flt_now = NoTime
    /\ flt_ret = NotCalled
    /\ ac_prefix = <<>>
    /\ ac_titles = <<>>
    /\ ac_history = <<>>
    /\ ac_ret = NotCalled
    /\ aq_query = <<>>
    /\ aq_ret = NotCalled
    /\ aq_returned = <<>>
    /\ self_search_history = <<>>
    /\ self_popular_queries = EmptyDict
    /\ self_trending_topics = <<>>
    /\ gi_papers \in SeqsUpTo(InsightPool, MaxPapers) \cup YearLists
    /\ gi_ret = NotCalled
    /\ sq_query = <<>>
    /\ sq_papers = <<>>
    /\ sq_ret = NotCalled

InsNext == GenerateSearchInsights

SpecInsights == InitInsights /\ [][InsNext]_vars

\* the filter under the configurations of several active predicates
InitFilterOrder ==
    /\ avl_root = None
    /\ avl_titles = [t \in TitlePool |-> 0]
    /\ avl_call = NoAVLCall
    /\ rb = RBTree
    /\ rb_call = NoRBCall
    /\ flt_papers \in SeqsUpTo(PaperPool, MaxPapers)
    /\ flt_filters \in ActiveFilterPool
    /\ flt_now \in NowPool
    /\ flt_ret = NotCalled
    /\ ac_prefix = <<>>
    /\ ac_titles = <<>>
    /\ ac_history = <<>>
    /\ ac_ret = NotCalled
    /\ aq_query = <<>>
    /\ aq_ret = NotCalled
    /\ aq_returned = <<>>
    /\ self_search_history = <<>>
    /\ self_popular_queries = EmptyDict
    /\ self_trending_topics = <<>>
    /\ gi_papers = <<>>
    /\ gi_ret = NotCalled
    /\ sq_query = <<>>
    /\ sq_papers = <<>>
    /\ sq_ret = NotCalled

SpecFilterOrder == InitFilterOrder /\ [][FltNext]_vars

InitSuggest ==
    /\ avl_root = None
    /\ avl_titles = [t \in TitlePool |-> 0]
    /\ avl_call = NoAVLCall
    /\ rb = RBTree
    /\ rb_call = NoRBCall
    /\ flt_papers = <<>>
    /\ flt_filters = EmptyDict
    /\ flt_now = NoTime
    /\ flt_ret = NotCalled
    /\ ac_prefix = <<>>
    /\ ac_titles = <<>>
    /\ ac_history = <<>>
    /\ ac_ret = NotCalled
    /\ aq_query = <<>>
    /\ aq_ret = NotCalled
    /\ aq_returned = <<>>
    /\ self_search_history = <<>>
    /\ self_popular_queries = EmptyDict
    /\ self_trending_topics = <<>>
    /\ gi_papers = <<>>
    /\ gi_ret = NotCalled
    /\ sq_query \in SuggestQueries \cup { SixWordQuery }
    /\ sq_papers \in SeqsUpTo(SuggestPool, MaxPapers)
                     \cup { SixWordsTwice, ElevenWordsTwice }
    /\ sq_ret = NotCalled

SugNext == SuggestRelatedQueries

SpecSuggest == InitSuggest /\ [][SugNext]_vars

====
